---- MODULE Spec2Model ----
(***************************************************************************)
(* scuttle-chat: the box-stream codec (src/src/box_stream.rs), the two     *)
(* connection constructors (init_chat_handle in src/src/peer_manager.rs,   *)
(* PeerConnection::from_handshake in src/src/peer_connection.rs) and the   *)
(* event bus (src/src/event.rs).                                           *)
(*                                                                         *)
(* secretbox is modelled as an ideal authenticated cipher: a ciphertext    *)
(* and a tag are symbolic values that remember the plaintext, the nonce    *)
(* and the key they were made with; open_detached succeeds exactly when    *)
(* the tag was made for these bytes under this nonce and key and no bit    *)
(* was flipped.  Strings are sequences of byte values.                     *)
(***************************************************************************)
EXTENDS Integers, Sequences, FiniteSets, TLC

(* ------------------------------ bounds -------------------------------- *)
\* frames the remote peers put on the wire, all connections together
MaxIn == 2
\* messages the application enqueues, all connections together
MaxOut == 2
\* events of the other producers of the bus (tick, input, discovery)
MaxOther == 1
\* bit flips applied to bytes in flight, all connections together
MaxTamper == 1
\* events the application handles
MaxTurns == 7

(* ----------------------- program constants ---------------------------- *)
\* assert!(body.len() <= 4096)
MaxBody == 4096
\* BigEndian::write_u16(sz, body.len() as u16)
U16 == 65536
\* if self.debug_log.len() > 15
LogCap == 15

Conn == {1, 2}
Peers == {"P", "Q"}
LocalPk == "L"

\* bodies a remote peer may send: empty, valid UTF-8, invalid UTF-8
Bodies == {<<>>, <<65>>, <<255>>}
\* a body of n bytes
Zeros(n) == [i \in 1..n |-> 0]
\* bodies of 1, 2, 4095, 4096, 4097 and 5000 bytes
SizedBodies == {Zeros(n) : n \in {1, 2, MaxBody - 1, MaxBody, MaxBody + 1, 5000}}
\* strings the application may enqueue
Strings == {<<>>, <<65>>}

(* ----------------------------- strings -------------------------------- *)
RECURSIVE Dec(_)
\* decimal digits of n, as character codes
Dec(n) == IF n < 10 THEN <<48 + n>> ELSE Dec(n \div 10) \o <<48 + (n % 10)>>

RECURSIVE DebugList(_)
\* the elements of format!("{:?}", vec), separated by ", "
DebugList(b) ==
    IF Len(b) = 0 THEN <<>>
    ELSE IF Len(b) = 1 THEN Dec(b[1])
    ELSE Dec(b[1]) \o <<44, 32>> \o DebugList(Tail(b))

\* "Raw bytes: "
RawPrefix == <<82, 97, 119, 32, 98, 121, 116, 101, 115, 58, 32>>
\* "Goodbye!"
GoodbyeStr == <<71, 111, 111, 100, 98, 121, 101, 33>>

\* String::from_utf8 accepts the bytes (over the byte values of the model:
\* a byte >= 128 that starts no multi-byte sequence is rejected)
ValidUtf8(b) == \A i \in 1..Len(b) : b[i] < 128

\* String::from_utf8(raw).unwrap_or(format!("Raw bytes: {:?}", raw)) / "Goodbye!"
PeerMsgOf(maybe_bytes) ==
    IF maybe_bytes.some
    THEN IF ValidUtf8(maybe_bytes.body) THEN maybe_bytes.body
         ELSE RawPrefix \o <<91>> \o DebugList(maybe_bytes.body) \o <<93>>
    ELSE GoodbyeStr

(* ---------------------------- secretbox ------------------------------- *)
ZeroKey == <<0, "zero">>
\* 16 zero bytes
ZeroTag == [pt |-> <<>>, len |-> 0, n |-> 0 - 1, k |-> ZeroKey, flip |-> FALSE]
\* the bytes of an empty buffer
EmptyCt == [pt |-> <<>>, len |-> 0, n |-> 0, k |-> ZeroKey, flip |-> FALSE]

Box(pt, len, n, k) == [pt |-> pt, len |-> len, n |-> n, k |-> k, flip |-> FALSE]

\* secretbox::seal_detached: the buffer becomes ciphertext, the tag is returned
seal_detached(pt, len, n, k) ==
    [ct |-> IF len = 0 THEN EmptyCt ELSE Box(pt, len, n, k), tag |-> Box(pt, len, n, k)]

\* an open_detached that would not authenticate the ciphertext bytes
open_detached_tag_only(ct, tag, n, k) ==
    LET ok == ~tag.flip /\ tag.n = n /\ tag.k = k
    IN  [ok |-> ok, pt |-> IF ok THEN tag.pt ELSE <<>>]

\* secretbox::open_detached: Ok(plaintext) iff the tag authenticates these
\* bytes under (nonce, key)
open_detached(ct, tag, n, k) ==
    LET ok == /\ ~ct.flip /\ ~tag.flip
              /\ tag.n = n /\ tag.k = k
              /\ ct.len = tag.len
              /\ \/ ct.len = 0
                 \/ (ct.n = n /\ ct.k = k /\ ct.pt = tag.pt)
    IN  [ok |-> ok, pt |-> IF ok THEN tag.pt ELSE <<>>]

\* NonceGen::next: returns the current value, the generator moves on by one
NonceNext(gen) == [nonce |-> gen, gen |-> gen + 1]

(* ---------------------------- box_stream ------------------------------ *)
\* an 18-byte header payload: u16 length, 16-byte body tag
Payload(sz, btag) == [sz |-> sz, btag |-> btag]
\* [0; 18]
ZeroPayload == Payload(0, ZeroTag)

seal_header(payload, nonce, key) ==
    LET s == seal_detached(payload, 18, nonce, key)
    IN  [t |-> "head", tag |-> s.tag, ct |-> s.ct]

\* a seal that would leave the tag field of the header zero for an empty body
seal_untagged(body, key, noncegen) ==
    LET h == NonceNext(noncegen)
        b == NonceNext(h.gen)
        sb == seal_detached(body, Len(body), b.nonce, key)
        hp == Payload(Len(body) % U16, IF Len(body) = 0 THEN ZeroTag ELSE sb.tag)
    IN  [head |-> seal_header(hp, h.nonce, key),
         body |-> [t |-> "body", ct |-> sb.ct],
         noncegen |-> b.gen,
         drawn |-> <<h.nonce, b.nonce>>]

\* seal: two nonces, the body sealed first, its tag and length in the header
seal(body, key, noncegen) ==
    LET h == NonceNext(noncegen)
        b == NonceNext(h.gen)
        sb == seal_detached(body, Len(body), b.nonce, key)
        hp == Payload(Len(body) % U16, sb.tag)
    IN  [head |-> seal_header(hp, h.nonce, key),
         body |-> [t |-> "body", ct |-> sb.ct],
         noncegen |-> b.gen,
         drawn |-> <<h.nonce, b.nonce>>]


\* a send that would not check the length of the body
send_unchecked(self, body, io) ==
    LET s == seal(body, self.key, self.noncegen)
    IN  [r |-> "Ok", out |-> <<s.head, s.body>>, drawn |-> s.drawn]

\* BoxWriter::send(mut self, body): the writer is taken by value; the result
\* is the io::Result alone, so the generator that seal advanced is dropped
\* with the moved writer.  io is what the transport does with the two writes.
send(self, body, io) ==
    IF Len(body) > MaxBody
    THEN [r |-> "panic", out |-> <<>>, drawn |-> <<>>]
    ELSE LET s == seal(body, self.key, self.noncegen)
             cipher_body == IF Len(body) = 0 THEN <<>> ELSE <<s.body>>
         IN  IF io = "head_fail"
             THEN [r |-> "Err", out |-> <<>>, drawn |-> s.drawn]
             ELSE IF io = "body_fail" /\ Len(body) > 0
             THEN [r |-> "Err", out |-> <<s.head>>, drawn |-> s.drawn]
             ELSE [r |-> "Ok", out |-> <<s.head>> \o cipher_body, drawn |-> s.drawn]

\* a send_goodbye that would seal an empty body as a frame
send_goodbye_as_frame(self, io) ==
    LET s == seal(<<>>, self.key, self.noncegen)
    IN  [self |-> [key |-> self.key, noncegen |-> s.noncegen],
         r |-> "Ok", out |-> <<s.head>>, drawn |-> s.drawn]

\* BoxWriter::send_goodbye(mut self) -> (Self, Result)
send_goodbye(self, io) ==
    LET h == NonceNext(self.noncegen)
        head == seal_header(ZeroPayload, h.nonce, self.key)
    IN  [self |-> [key |-> self.key, noncegen |-> h.gen],
         r |-> IF io = "ok" THEN "Ok" ELSE "Err",
         out |-> IF io = "ok" THEN <<head>> ELSE <<>>,
         drawn |-> <<h.nonce>>]

\* the value of a recv call
RecvResult(res, body, self, stream, drawn) ==
    [res |-> res, body |-> body, self |-> self, stream |-> stream, drawn |-> drawn]

\* BoxReader::recv(&mut self) on the bytes the transport holds.  res is
\* "Some", "None", "HeaderOpenFailed", "BodyOpenFailed", "Io" (read_exact hit
\* the end of the stream) or "blocked" (read_exact still waits for bytes).
recv(self, stream, closed) ==
    IF Len(stream) = 0
    THEN RecvResult(IF closed THEN "Io" ELSE "blocked", <<>>, self, stream, <<>>)
    ELSE
    LET hd == stream[1]
        rest == Tail(stream)
        h == NonceNext(self.noncegen)
        afterh == [key |-> self.key, noncegen |-> h.gen]
        oh == IF hd.t = "head" THEN open_detached(hd.ct, hd.tag, h.nonce, self.key)
              ELSE [ok |-> FALSE, pt |-> <<>>]
    IN  IF ~oh.ok
        THEN RecvResult("HeaderOpenFailed", <<>>, afterh, rest, <<h.nonce>>)
        ELSE
        LET body_size == oh.pt.sz
            body_tag == oh.pt.btag
        IN  IF body_size = 0 /\ body_tag = ZeroTag
            THEN RecvResult("None", <<>>, afterh, rest, <<h.nonce>>)
            ELSE IF body_size > 0 /\ Len(rest) = 0
            THEN RecvResult(IF closed THEN "Io" ELSE "blocked", <<>>,
                            IF closed THEN afterh ELSE self,
                            IF closed THEN rest ELSE stream,
                            IF closed THEN <<h.nonce>> ELSE <<>>)
            ELSE
            LET ct == IF body_size = 0 THEN EmptyCt
                      ELSE IF rest[1].t = "body" THEN rest[1].ct
                      ELSE [EmptyCt EXCEPT !.flip = TRUE]
                after == IF body_size = 0 THEN rest ELSE Tail(rest)
                b == NonceNext(h.gen)
                afterb == [key |-> self.key, noncegen |-> b.gen]
                ob == open_detached(ct, body_tag, b.nonce, self.key)
            IN  IF ob.ok
                THEN RecvResult("Some", ob.pt, afterb, after, <<h.nonce, b.nonce>>)
                ELSE RecvResult("BodyOpenFailed", <<>>, afterb, after,
                                <<h.nonce, b.nonce>>)


(* --------------------------- discovery, net --------------------------- *)
\* a datagram, by what its receiver looks at: whether the bytes are UTF-8
\* and, for the first ';'-separated token, the protocol prefix the regex
\* captures ("" when the regex does not match), whether the address parses,
\* whether the key is base64 and of the length of a public key, and the key
Datagram(utf8, proto, addr_ok, b64_ok, len_ok, pk) ==
    [utf8 |-> utf8, proto |-> proto, addr_ok |-> addr_ok, b64_ok |-> b64_ok,
     len_ok |-> len_ok, pk |-> pk]

\* what init_announcer broadcasts for the node with public key pk
Announce(pk) == Datagram(TRUE, "net:", TRUE, TRUE, TRUE, pk)

\* the announcements of two other peers and of this node, and datagrams that
\* are not announcements: invalid UTF-8, no match, bad address, bad base64,
\* a key of the wrong length
Datagrams ==
    {Announce(pk) : pk \in Peers \cup {LocalPk}} \cup
    {Datagram(FALSE, "net:", TRUE, TRUE, TRUE, "P"),
     Datagram(TRUE, "", TRUE, TRUE, TRUE, "P"),
     Datagram(TRUE, "net:", FALSE, TRUE, TRUE, "P"),
     Datagram(TRUE, "ws://", TRUE, FALSE, TRUE, "P"),
     Datagram(TRUE, "net:", TRUE, TRUE, FALSE, "P")}

\* <SsbPeer as FromStr>::from_str on the token of d
from_str(d) ==
    IF d.proto \in {"ws://", "net:"} /\ d.addr_ok /\ d.b64_ok /\ d.len_ok
    THEN [ok |-> TRUE, public_key |-> d.pk]
    ELSE [ok |-> FALSE, public_key |-> "none"]

\* PeerListener::recv when socket.recv yields d, or fails (~io_ok)
PeerListener_recv(io_ok, d) ==
    IF ~io_ok THEN [r |-> "Err", public_key |-> "none"]
    ELSE IF ~d.utf8 THEN [r |-> "panic", public_key |-> "none"]
    ELSE IF from_str(d).ok THEN [r |-> "Ok", public_key |-> from_str(d).public_key]
    ELSE [r |-> "Err", public_key |-> "none"]

\* DiscoveryService::recv, entered with `depth` invocations of itself already
\* nested in the caller's call, when socket.recv yields d or fails (~io_ok).
\* A datagram with the service's own key makes it call itself: "recurse" is
\* the new invocation waiting in socket.recv, one level deeper unless the
\* build turned the call in tail position into a jump (jump), which the
\* language does not promise.  Any other outcome is handed back through all
\* the nested invocations.
DiscoveryService_recv(public_key, depth, jump, io_ok, d) ==
    IF ~io_ok THEN [r |-> "Err", public_key |-> "none", depth |-> 0]
    ELSE IF ~d.utf8 THEN [r |-> "panic", public_key |-> "none", depth |-> depth]
    ELSE IF ~from_str(d).ok THEN [r |-> "Err", public_key |-> "none", depth |-> 0]
    ELSE IF public_key = from_str(d).public_key
         THEN [r |-> "recurse", public_key |-> "none",
               depth |-> IF jump THEN depth ELSE depth + 1]
         ELSE [r |-> "Ok", public_key |-> from_str(d).public_key, depth |-> 0]

(* ------------------------------ chat, app ----------------------------- *)
\* PeerAddr::feed_id: "@" + base64(public_key) + ".ed25519"
FeedId(pk) == <<"@", pk, ".ed25519">>

\* a formatted string: the format and what fills it
Text(fmt, arg) == [fmt |-> fmt, arg |-> arg, bytes |-> <<>>]
\* a string that came as bytes (typed by the user, sent by the peer)
Typed(bytes) == [fmt |-> "{}", arg |-> <<>>, bytes |-> bytes]

ChatMsg(sender, message) == [sender |-> sender, message |-> message]
\* ChatSender
ChatSender_You == [who |-> "_You", feed |-> <<>>]
ChatSender_Info == [who |-> "Info", feed |-> <<>>]
ChatSender_Peer(f) == [who |-> "Peer", feed |-> f]

\* Option<mpsc::Sender<String>>: None, or the Sender of connection c
None == 0
\* Option<usize> of App.selected: None is NoSel, Some(i) is i
NoSel == 0 - 1

\* AppMode
Normal == [kind |-> "Normal", feed |-> <<>>]
Debug == [kind |-> "Debug", feed |-> <<>>]
Chat(f) == [kind |-> "Chat", feed |-> f]

PeerChat(messages, input, peer_tx) ==
    [messages |-> messages, input |-> input, peer_tx |-> peer_tx, scroll_offset |-> 0]

\* App::new.  available_peers is the sequence of the map's keys in the order
\* the map iterates them (App::peer_list)
App_new ==
    [mode |-> Normal, available_peers |-> <<>>, selected |-> NoSel,
     peer_chats |-> [f \in {} |-> PeerChat(<<>>, <<>>, None)], debug_log |-> <<>>]

Range(seq) == {seq[i] : i \in 1..Len(seq)}

\* App::log: at most LogCap + 1 entries are kept
log(a, entry) ==
    [a EXCEPT !.debug_log = Append(IF Len(@) > LogCap THEN Tail(@) ELSE @, entry)]

\* peer_chats with chat stored under f
WithChat(a, f, chat) ==
    [a EXCEPT !.peer_chats =
        [g \in DOMAIN @ \cup {f} |-> IF g = f THEN chat ELSE @[g]]]

HasChat(a, f) == f \in DOMAIN a.peer_chats

\* chat.messages.push(msg) on the chat of f
PushMsg(a, f, msg) == [a EXCEPT !.peer_chats[f].messages = Append(@, msg)]

\* Event::NewPeer: available_peers.insert, then log.  A key that is new
\* takes the place `at` in the map's iteration order (the map does not
\* resize below four entries, so the other keys stay where they are)
OnNewPeer(a, pk, at) ==
    LET f == FeedId(pk)
        keys == a.available_peers
        inserted == IF f \in Range(keys) THEN keys
                    ELSE SubSeq(keys, 1, at - 1) \o <<f>> \o SubSeq(keys, at, Len(keys))
    IN  log([a EXCEPT !.available_peers = inserted], [entry |-> Text("{}", f), level |-> "ANN"])

\* PeerEvent::HandshakeSuccessful carrying the Sender of connection c
OnHandshakeSuccessful(a, pk, c) ==
    LET f == FeedId(pk)
        msgs == <<ChatMsg(ChatSender_Info, Text("Succeeded in handshake!", <<>>)),
                  ChatMsg(ChatSender_Info,
                          Text("Now connected to {} via encrypted BoxStream", f))>>
    IN  IF HasChat(a, f)
        THEN [a EXCEPT !.peer_chats[f].messages = @ \o msgs,
                       !.peer_chats[f].peer_tx = c]
        ELSE WithChat(a, f, PeerChat(msgs, <<>>, c))

\* a HandshakeFailed arm that would also leave the chat screen
OnHandshakeFailed_leave(a, pk) ==
    LET f == FeedId(pk)
        logged == log(a, [entry |-> Text("Failed to connect to {}", f), level |-> "ERROR"])
    IN  [logged EXCEPT !.mode = Normal, !.selected = NoSel]

\* PeerEvent::HandshakeFailed
OnHandshakeFailed(a, pk) ==
    LET f == FeedId(pk)
        logged == log(a, [entry |-> Text("Failed to connect to {}", f), level |-> "ERROR"])
    IN  IF HasChat(a, f)
        THEN [PushMsg(logged, f, ChatMsg(ChatSender_Info, Text("Failed to connect to {}", f)))
                EXCEPT !.peer_chats[f].peer_tx = None]
        ELSE logged

\* PeerEvent::MessageReceived
OnMessageReceived(a, pk, peer_msg) ==
    LET f == FeedId(pk)
    IN  IF HasChat(a, f) THEN PushMsg(a, f, ChatMsg(ChatSender_Peer(f), Typed(peer_msg)))
        ELSE a

\* the text of a ConnectionClosed reason ("Ok" is Ok(()); the dashes of the
\* Err text are en dashes in the source)
ClosedText(status) ==
    IF status = "Ok" THEN Text("Connection Closed -- Goodbye!", <<>>)
    ELSE Text("Connection Closed -- Error ({})", <<status>>)

\* a ConnectionClosed arm that would keep the Sender
OnConnectionClosed_keep(a, pk, status) ==
    LET f == FeedId(pk)
        logged == IF status # "Ok" THEN log(a, [entry |-> ClosedText(status), level |-> "ERROR"])
                  ELSE a
    IN  IF HasChat(a, f) THEN PushMsg(logged, f, ChatMsg(ChatSender_Info, ClosedText(status)))
        ELSE logged

\* PeerEvent::ConnectionClosed
OnConnectionClosed(a, pk, status) ==
    LET f == FeedId(pk)
        logged == IF status # "Ok" THEN log(a, [entry |-> ClosedText(status), level |-> "ERROR"])
                  ELSE a
    IN  IF HasChat(a, f)
        THEN [PushMsg(logged, f, ChatMsg(ChatSender_Info, ClosedText(status)))
                EXCEPT !.peer_chats[f].peer_tx = None]
        ELSE logged

\* the match on pm_event.event of App::run (NewConnection has no arm)
OnPeerManagerEvent(a, e) ==
    CASE e.event = "HandshakeSuccessful" -> OnHandshakeSuccessful(a, e.peer, e.conn)
      [] e.event = "HandshakeFailed" -> OnHandshakeFailed(a, e.peer)
      [] e.event = "MessageReceived" -> OnMessageReceived(a, e.peer, e.msg)
      [] e.event = "ConnectionClosed" -> OnConnectionClosed(a, e.peer, e.status)
      [] OTHER -> a

\* keys: the characters q d j k a, and the named keys and mouse events
CharKeys == {"q", "d", "j", "k", "a"}
Keys == CharKeys \cup {"Left", "Esc", "Down", "Up", "Enter", "Backspace",
                       "WheelUp", "WheelDown"}
\* the byte a character key appends to the input
CharCode(key) ==
    CASE key = "q" -> 113 [] key = "d" -> 100 [] key = "j" -> 106
      [] key = "k" -> 107 [] OTHER -> 97

\* what handle_input leaves behind: the application state, and the call it
\* makes on the way ("send" on the Sender of conn, "connect" to peer) or the
\* panic it ends in
Outcome(a, eff, conn, pk, msg) ==
    [app |-> a, eff |-> eff, conn |-> conn, peer |-> pk, msg |-> msg]
Done(a) == Outcome(a, "none", 0, "none", <<>>)
Panic(a) == Outcome(a, "panic", 0, "none", <<>>)

\* peer_list()[selected]: "None" without a selection, "panic" out of bounds
SelectedFeed(a) ==
    IF a.selected = NoSel THEN [r |-> "None", feed |-> <<>>]
    ELSE IF a.selected >= Len(a.available_peers) THEN [r |-> "panic", feed |-> <<>>]
    ELSE [r |-> "Some", feed |-> a.available_peers[a.selected + 1]]

\* a wrap-around that would compare with len() instead of len() - 1
SelectNext_past(a) ==
    IF a.selected # NoSel
    THEN IF a.selected >= Len(a.available_peers)
         THEN Done([a EXCEPT !.selected = 0])
         ELSE Done([a EXCEPT !.selected = @ + 1])
    ELSE IF Len(a.available_peers) # 0 THEN Done([a EXCEPT !.selected = 0])
    ELSE Done(a)

\* j, Down
SelectNext(a) ==
    IF a.selected # NoSel
    THEN IF Len(a.available_peers) = 0 THEN Panic(a)     \* len() - 1 underflows
         ELSE IF a.selected >= Len(a.available_peers) - 1
              THEN Done([a EXCEPT !.selected = 0])
              ELSE Done([a EXCEPT !.selected = @ + 1])
    ELSE IF Len(a.available_peers) # 0 THEN Done([a EXCEPT !.selected = 0])
    ELSE Done(a)

\* k, Up
SelectPrev(a) ==
    IF a.selected # NoSel
    THEN IF a.selected > 0 THEN Done([a EXCEPT !.selected = @ - 1])
         ELSE IF Len(a.available_peers) = 0 THEN Panic(a)  \* len() - 1 underflows
         ELSE Done([a EXCEPT !.selected = Len(a.available_peers) - 1])
    ELSE IF Len(a.available_peers) # 0 THEN Done([a EXCEPT !.selected = 0])
    ELSE Done(a)

\* Enter in Normal mode
EnterNormal(a) ==
    LET sel == SelectedFeed(a)
    IN  IF sel.r = "None"
        THEN Done(log(a, [entry |-> Text("No peer selected. Cannot initialize handshake",
                                         <<>>),
                          level |-> "ERROR"]))
        ELSE IF sel.r = "panic" THEN Panic(a)
        ELSE IF HasChat(a, sel.feed) THEN Done([a EXCEPT !.mode = Chat(sel.feed)])
        ELSE Outcome([a EXCEPT !.mode = Chat(sel.feed)], "connect", 0, sel.feed[2], <<>>)

\* an Enter arm that would leave the sent text in the input buffer
EnterChat_keep(a, feed_id) ==
    IF feed_id \notin Range(a.available_peers) THEN Panic(a)
    ELSE IF ~HasChat(a, feed_id) THEN Outcome(a, "connect", 0, feed_id[2], <<>>)
    ELSE LET peer_chat == a.peer_chats[feed_id]
         IN  IF peer_chat.peer_tx # None
             THEN Outcome(PushMsg(a, feed_id,
                                  ChatMsg(ChatSender_You, Typed(peer_chat.input))),
                          "send", peer_chat.peer_tx, "none", peer_chat.input)
             ELSE Done(PushMsg(a, feed_id,
                               ChatMsg(ChatSender_Info,
                                       Text("Cannot send message, broken connetion?", <<>>))))

\* Enter in Chat(feed_id) mode
EnterChat(a, feed_id) ==
    IF feed_id \notin Range(a.available_peers) THEN Panic(a)
    ELSE IF ~HasChat(a, feed_id) THEN Outcome(a, "connect", 0, feed_id[2], <<>>)
    ELSE LET peer_chat == a.peer_chats[feed_id]
         IN  IF peer_chat.peer_tx # None
             THEN Outcome([PushMsg(a, feed_id,
                                   ChatMsg(ChatSender_You, Typed(peer_chat.input)))
                              EXCEPT !.peer_chats[feed_id].input = <<>>],
                          "send", peer_chat.peer_tx, "none", peer_chat.input)
             ELSE Done(PushMsg(a, feed_id,
                               ChatMsg(ChatSender_Info,
                                       Text("Cannot send message, broken connetion?", <<>>))))

\* a key or mouse event that edits the chat the selection points at
EditSelected(a, key) ==
    LET sel == SelectedFeed(a)
    IN  IF sel.r = "panic" THEN Panic(a)
        ELSE IF sel.r = "None" \/ ~HasChat(a, sel.feed) THEN Done(a)
        ELSE LET chat == a.peer_chats[sel.feed]
                 edited ==
                    CASE key = "WheelUp" -> [chat EXCEPT !.scroll_offset = @ + 1]
                      [] key = "WheelDown" ->
                            [chat EXCEPT !.scroll_offset = IF @ > 0 THEN @ - 1 ELSE @]
                      [] key = "Backspace" ->
                            [chat EXCEPT !.input = SubSeq(@, 1, Len(@) - 1)]
                      [] OTHER -> [chat EXCEPT !.input = Append(@, CharCode(key))]
             IN  Done([a EXCEPT !.peer_chats[sel.feed] = edited])

\* App::handle_input
handle_input(a, key) ==
    CASE a.mode.kind = "Debug" ->
            IF key = "Esc" THEN Done([a EXCEPT !.mode = Normal]) ELSE Done(a)
      [] a.mode.kind = "Normal" ->
            CASE key = "q" -> Panic(a)                     \* unimplemented!()
              [] key = "d" -> Done([a EXCEPT !.mode = Debug])
              [] key \in {"Left", "Esc"} -> Done([a EXCEPT !.selected = NoSel])
              [] key \in {"j", "Down"} -> SelectNext(a)
              [] key \in {"k", "Up"} -> SelectPrev(a)
              [] key = "Enter" -> EnterNormal(a)
              [] OTHER -> Done(a)
      [] OTHER ->
            CASE key = "Enter" -> EnterChat(a, a.mode.feed)
              [] key \in CharKeys \cup {"Backspace", "WheelUp", "WheelDown"} ->
                    EditSelected(a, key)
              [] key = "Esc" -> Done([a EXCEPT !.mode = Normal])
              [] OTHER -> Done(a)

(* ------------------------------ state --------------------------------- *)
VARIABLES
    ui,         \* the UI thread: "run" or "panicked" (the process is gone)
    listener,   \* the accept loop: "off", "run", "dead"
    via,        \* c -> "none", "pm" (init_chat_handle), "pc" (from_handshake)
    inbound,    \* c -> the stream was accepted (TRUE) or dialled (FALSE)
    remote,     \* c -> public key of the peer at the other end of the stream
    peer,       \* c -> the `peer` the connection's task holds
    task,       \* c -> where the handshake/reader thread is
    writer,     \* c -> where the writer thread is
    hs_keys,    \* c -> HandshakeKeys
    box_writer, \* c -> BoxWriter {key, noncegen}
    box_reader, \* c -> BoxReader {key, noncegen}
    queue,      \* c -> the outbound mpsc channel
    tx,         \* c -> who holds the Sender of the outbound channel
    wout,       \* c -> bytes written to the transport
    win,        \* c -> bytes of the transport not yet read
    eof,        \* c -> the remote closed its side
    rgen,       \* c -> the remote writer's nonce generator
    pm_chan,    \* PeerManagerEvent channel (event_bus -> cm_rx)
    bus,        \* Event channel of Events (tx -> rx)
    consumed,   \* history: c -> the events of c that Events::next returned
    emitted,    \* history: c -> the events the connection's tasks sent; 0 -> the
                \* events the input, tick and discovery threads sent
    drawn,      \* history: c -> nonces drawn, by task, with the key used
    enq,        \* history: c -> messages accepted by the outbound channel
    inlog,      \* history: c -> frames as the remote put them on the wire
    got,        \* history: c -> what each recv call returned
    nother,     \* events of the other producers so far
    ntamper,    \* bit flips so far
    producer,   \* the input and discovery threads of Events: "run", "done", "panicked";
                \* depth: the recv invocations nested in the discovery thread's call
    app,        \* the fields of App: mode, available_peers, selected, ...
    nturn,      \* events the application has handled so far
    lim         \* what the run explores: connections, frames, messages, ...

vars == <<ui, listener, via, inbound, remote, peer, task, writer, hs_keys,
          box_writer, box_reader, queue, tx, wout, win, eof, rgen, pm_chan,
          bus, consumed, emitted, drawn, enq, inlog, got, nother, ntamper, producer,
          app, nturn, lim>>

NoKeys == [write_key |-> ZeroKey, write_noncegen |-> 0,
           read_key |-> ZeroKey, read_noncegen |-> 0]
NoBox == [key |-> ZeroKey, noncegen |-> 0]

\* PeerManagerEvent { peer, event }; conn is the connection whose task sent it
PeerManagerEvent(p, c, event, msg, status) ==
    [src |-> "pm", peer |-> p, conn |-> c, event |-> event, msg |-> msg,
     status |-> status, key |-> ""]
\* Event::Input, Event::Tick, Event::NewPeer
OtherEvent(kind) ==
    [src |-> kind, peer |-> "none", conn |-> 0, event |-> kind, msg |-> <<>>,
     status |-> "", key |-> ""]
\* Event::Input(key)
InputEvent(key) == [OtherEvent("Input") EXCEPT !.key = key]
\* Event::NewPeer(ssb_peer)
NewPeerEvent(pk) == [OtherEvent("NewPeer") EXCEPT !.peer = pk]

\* the threads Events::with_config spawns for the keyboard and for discovery
Producers == [input |-> "run", new_peer |-> "run", depth |-> 0]

\* no connection exists; the listener is in state lst and the application
\* in state a
InitState(l, lst, a) ==
    /\ lim = l
    /\ ui = "run"
    /\ listener = lst
    /\ via = [c \in Conn |-> "none"]
    /\ inbound = [c \in Conn |-> FALSE]
    /\ remote = [c \in Conn |-> "none"]
    /\ peer = [c \in Conn |-> "none"]
    /\ task = [c \in Conn |-> "none"]
    /\ writer = [c \in Conn |-> "none"]
    /\ hs_keys = [c \in Conn |-> NoKeys]
    /\ box_writer = [c \in Conn |-> NoBox]
    /\ box_reader = [c \in Conn |-> NoBox]
    /\ queue = [c \in Conn |-> <<>>]
    /\ tx = [c \in Conn |-> "none"]
    /\ wout = [c \in Conn |-> <<>>]
    /\ win = [c \in Conn |-> <<>>]
    /\ eof = [c \in Conn |-> FALSE]
    /\ rgen = [c \in Conn |-> 0]
    /\ pm_chan = <<>>
    /\ bus = <<>>
    /\ consumed = [c \in Conn \cup {0} |-> <<>>]
    /\ emitted = [c \in Conn \cup {0} |-> <<>>]
    /\ drawn = [c \in Conn |-> [w |-> <<>>, r |-> <<>>]]
    /\ enq = [c \in Conn |-> <<>>]
    /\ inlog = [c \in Conn |-> <<>>]
    /\ got = [c \in Conn |-> <<>>]
    /\ nother = 0
    /\ ntamper = 0
    /\ producer = Producers
    /\ app = a
    /\ nturn = 0

\* the state after App::new: nothing listens
InitWith(l) == InitState(l, "off", App_new)

Limits(conns, in, out, other, tamper, close, faults, bodies, kinds) ==
    [conns |-> conns, in |-> in, out |-> out, other |-> other, tamper |-> tamper,
     close |-> close, faults |-> faults, bodies |-> bodies, kinds |-> kinds]

\* the process runs (a panic of the main thread ends it); its main thread may
\* be inside connect_timeout
Alive == ui \in {"run", "connecting"}

\* the UI thread is in App::run, between two calls
UiTurn == ui = "run"

\* the Receiver of the outbound channel exists: the connection closure holds
\* it until it moves into the writer thread, which holds it while it runs
RxAlive(c) == task[c] \in {"handshake", "publish", "spawn"} \/ writer[c] = "run"

\* the nonces of ns tagged with the key they were used with
Draws(key, ns) == [i \in 1..Len(ns) |-> [key |-> key, n |-> ns[i]]]

RECURSIVE SumLen(_, _)
SumLen(f, S) ==
    IF S = {} THEN 0
    ELSE LET c == CHOOSE x \in S : TRUE IN Len(f[c]) + SumLen(f, S \ {c})

\* the application's own state and the discovery thread
UApp == <<producer, app, nturn>>
UNet == <<via, inbound, remote, peer, task, writer, hs_keys, box_writer, box_reader,
          queue, tx, wout, win, eof, rgen, emitted, drawn, enq, inlog, ntamper, lim, got,
          UApp>>
UBus == <<pm_chan, bus, consumed, nother, lim, got, UApp>>


(* --------------------------- peer_manager ----------------------------- *)
\* a connection slot not used yet (the lowest one: slots are interchangeable)
FreeSlot(c) ==
    /\ c <= lim.conns
    /\ via[c] = "none" /\ \A d \in Conn : d < c => via[d] # "none"

\* the peers a connection may be with: peers are interchangeable until one
\* is known, so the first one met is "P"
Dialled == IF \A c \in Conn : peer[c] = "none" THEN {"P"} ELSE Peers

\* PeerManager::start_listener as App::run calls it: bind, spawn the accept loop;
\* a bind error leaves run with Err and the process ends
StartListener(ok) ==
    /\ UiTurn /\ listener = "off"
    /\ ~ok => lim.faults
    /\ IF ok THEN listener' = "run" /\ ui' = ui
             ELSE listener' = listener /\ ui' = "exited"
    /\ UNCHANGED <<UNet, UBus>>

\* one turn of `for stream in listener.incoming()` with an accepted stream:
\* init_chat_handle creates the outbound channel and spawns the thread
Accept(c) ==
    /\ Alive /\ listener = "run" /\ FreeSlot(c)
    /\ via' = [via EXCEPT ![c] = "pm"]
    /\ inbound' = [inbound EXCEPT ![c] = TRUE]
    /\ task' = [task EXCEPT ![c] = "handshake"]
    /\ tx' = [tx EXCEPT ![c] = "task"]
    /\ UNCHANGED <<ui, listener, remote, peer, writer, hs_keys, box_writer, box_reader, queue,
                   wout, win, eof, rgen, emitted, drawn, enq, inlog, ntamper, UBus>>

\* `stream?` on an accept error: the listener thread returns
AcceptErr ==
    /\ Alive /\ listener = "run" /\ lim.faults
    /\ listener' = "dead"
    /\ UNCHANGED <<ui, UNet, UBus>>

\* what a call of init_handshake(peer) does to the caller and to slot c
Dial(c, p, connected) ==
    IF connected
    THEN /\ via' = [via EXCEPT ![c] = "pm"]
         /\ peer' = [peer EXCEPT ![c] = p]
         /\ task' = [task EXCEPT ![c] = "handshake"]
         /\ tx' = [tx EXCEPT ![c] = "task"]
         /\ ui' = ui
    ELSE /\ ui' = "panicked"
         /\ UNCHANGED <<via, peer, task, tx>>

\* PeerManager::init_handshake(peer) on the caller's thread: connect_timeout
\* (.unwrap()), then init_chat_handle
init_handshake(c, p, connected) ==
    /\ UiTurn /\ listener # "off" /\ FreeSlot(c) /\ p \in Dialled
    /\ ~connected => lim.faults
    /\ Dial(c, p, connected)
    /\ UNCHANGED <<listener, inbound, remote, writer, hs_keys, box_writer, box_reader, queue,
                   wout, win, eof, rgen, emitted, drawn, enq, inlog, ntamper, UBus>>

\* PeerManager::init_handshake(peer) up to its call of connect_timeout: the
\* caller's thread is inside the call until the connect succeeds, fails or
\* times out (500 ms)
ConnectBegin(c, p) ==
    /\ UiTurn /\ listener # "off" /\ FreeSlot(c) /\ p \in Dialled
    /\ ui' = "connecting"
    /\ via' = [via EXCEPT ![c] = "pm"]
    /\ peer' = [peer EXCEPT ![c] = p]
    /\ task' = [task EXCEPT ![c] = "connect"]
    /\ UNCHANGED <<listener, inbound, remote, writer, hs_keys, box_writer, box_reader, queue,
                   tx, wout, win, eof, rgen, emitted, drawn, enq, inlog, ntamper, UBus>>

\* connect_timeout returns: .unwrap(), then init_chat_handle creates the
\* channel and spawns the connection's thread, and init_handshake returns
ConnectEnd(c, connected) ==
    /\ ui = "connecting" /\ task[c] = "connect"
    /\ ~connected => lim.faults
    /\ IF connected
       THEN /\ task' = [task EXCEPT ![c] = "handshake"]
            /\ tx' = [tx EXCEPT ![c] = "task"]
            /\ ui' = "run"
            /\ UNCHANGED <<via, peer>>
       ELSE /\ ui' = "panicked"
            /\ via' = [via EXCEPT ![c] = "none"]
            /\ peer' = [peer EXCEPT ![c] = "none"]
            /\ task' = [task EXCEPT ![c] = "none"]
            /\ tx' = tx
    /\ UNCHANGED <<listener, inbound, remote, writer, hs_keys, box_writer, box_reader, queue,
                   wout, win, eof, rgen, emitted, drawn, enq, inlog, ntamper, UBus>>

(* -------------------------- peer_connection --------------------------- *)
\* Handshaker::client_handshake(peer) up to the handshake: connect_timeout
\* (.unwrap()), then PeerConnection::from_handshake
client_handshake(c, p, connected) ==
    /\ UiTurn /\ listener # "off" /\ FreeSlot(c) /\ p \in Dialled
    /\ ~connected => lim.faults
    /\ IF connected
       THEN /\ via' = [via EXCEPT ![c] = "pc"]
            /\ peer' = [peer EXCEPT ![c] = p]
            /\ task' = [task EXCEPT ![c] = "handshake"]
            /\ ui' = ui
       ELSE /\ ui' = "panicked"
            /\ UNCHANGED <<via, peer, task>>
    /\ UNCHANGED <<listener, inbound, remote, writer, hs_keys, box_writer, box_reader, queue,
                   tx, wout, win, eof, rgen, emitted, drawn, enq, inlog, ntamper, UBus>>

\* Handshaker::server_handshake(stream) up to the handshake
server_handshake(c) ==
    /\ UiTurn /\ listener # "off" /\ FreeSlot(c)
    /\ via' = [via EXCEPT ![c] = "pc"]
    /\ inbound' = [inbound EXCEPT ![c] = TRUE]
    /\ task' = [task EXCEPT ![c] = "handshake"]
    /\ UNCHANGED <<ui, listener, remote, peer, writer, hs_keys, box_writer, box_reader, queue,
                   tx, wout, win, eof, rgen, emitted, drawn, enq, inlog, ntamper, UBus>>

(* ----------------------------- handshake ------------------------------ *)
\* what ssb_handshake yields for connection c: fresh keys, distinct per
\* direction, and a nonce seed per direction
HandshakeKeys(c) ==
    [write_key |-> <<c, "w">>, write_noncegen |-> 0,
     read_key |-> <<c, "r">>, read_noncegen |-> 0]

\* a closure that would return the address it holds, also on the server side
HandshakePeer_dialled(c, client_pk) == peer[c]

\* the peer the handshake closure returns: the address dialled, or the
\* client's public key as the server side learned it
HandshakePeer(c, client_pk) == IF inbound[c] THEN client_pk ELSE peer[c]

\* attempt_handshake / perform_handshake returns; r is the public key the
\* remote end proved to hold (a client handshake succeeds only with the key
\* that was dialled).  On Ok the listener's
\* closure has sent NewConnection; from_handshake goes on to spawn both loops
\* and returns the PeerConnection to its caller, who then holds the Sender.
AttemptHandshake(c, ok, r) ==
    /\ Alive /\ task[c] = "handshake"
    /\ r \in Dialled
    /\ ~inbound[c] => r = peer[c]
    /\ ~ok => lim.faults
    /\ remote' = [remote EXCEPT ![c] = IF ok THEN r ELSE @]
    /\ IF ~ok
       THEN /\ task' = [task EXCEPT ![c] = "hs_failed"]
            /\ tx' = [tx EXCEPT ![c] = IF via[c] = "pm" THEN "dropped" ELSE tx[c]]
            /\ UNCHANGED <<peer, writer, hs_keys, box_writer, box_reader, pm_chan,
                           emitted>>
       ELSE /\ peer' = [peer EXCEPT ![c] = HandshakePeer(c, r)]
            /\ hs_keys' = [hs_keys EXCEPT ![c] = HandshakeKeys(c)]
            /\ IF via[c] = "pm"
               THEN /\ task' = [task EXCEPT ![c] = "publish"]
                    /\ LET e == PeerManagerEvent(HandshakePeer(c, r), c, "NewConnection",
                                                 <<>>, "")
                       IN  IF inbound[c]
                           THEN /\ pm_chan' = Append(pm_chan, e)
                                /\ emitted' = [emitted EXCEPT ![c] = Append(@, e)]
                           ELSE UNCHANGED <<pm_chan, emitted>>
                    /\ UNCHANGED <<writer, box_writer, box_reader, tx>>
               ELSE /\ task' = [task EXCEPT ![c] = "read"]
                    /\ writer' = [writer EXCEPT ![c] = "run"]
                    /\ box_writer' = [box_writer EXCEPT ![c] =
                            [key |-> HandshakeKeys(c).write_key,
                             noncegen |-> HandshakeKeys(c).write_noncegen]]
                    /\ box_reader' = [box_reader EXCEPT ![c] =
                            [key |-> HandshakeKeys(c).read_key,
                             noncegen |-> HandshakeKeys(c).read_noncegen]]
                    /\ tx' = [tx EXCEPT ![c] = "app"]
                    /\ UNCHANGED <<pm_chan, emitted>>
    /\ UNCHANGED <<ui, listener, via, inbound, queue, wout, win, eof, rgen,
                   bus, consumed, drawn, enq, inlog, nother, ntamper, lim, got, UApp>>

\* init_connection, first statement: HandshakeSuccessful(box_writer_tx)
PublishHandshake(c) ==
    /\ Alive /\ task[c] = "publish"
    /\ LET e == PeerManagerEvent(peer[c], c, "HandshakeSuccessful", <<>>, "")
       IN  /\ pm_chan' = Append(pm_chan, e)
           /\ emitted' = [emitted EXCEPT ![c] = Append(@, e)]
    /\ tx' = [tx EXCEPT ![c] = "bus"]
    /\ task' = [task EXCEPT ![c] = "spawn"]
    /\ UNCHANGED <<ui, listener, via, inbound, remote, peer, writer, hs_keys, box_writer,
                   box_reader, queue, wout, win, eof, rgen, bus, consumed, drawn, enq,
                   inlog, nother, ntamper, lim, got, UApp>>

\* an init_connection that would hand the write key and generator to the
\* reader as well
SpawnWriter_shared(c) ==
    /\ Alive /\ task[c] = "spawn"
    /\ writer' = [writer EXCEPT ![c] = "run"]
    /\ box_writer' = [box_writer EXCEPT ![c] =
            [key |-> hs_keys[c].write_key, noncegen |-> hs_keys[c].write_noncegen]]
    /\ box_reader' = [box_reader EXCEPT ![c] =
            [key |-> hs_keys[c].write_key, noncegen |-> hs_keys[c].write_noncegen]]
    /\ task' = [task EXCEPT ![c] = "read"]
    /\ UNCHANGED <<ui, listener, via, inbound, remote, peer, hs_keys, queue, tx, wout,
                   win, eof, rgen, emitted, drawn, enq, inlog, ntamper, UBus>>

\* init_connection: spawn the writer thread (BoxWriter::new in it), then
\* BoxReader::new on this thread
SpawnWriter(c) ==
    /\ Alive /\ task[c] = "spawn"
    /\ writer' = [writer EXCEPT ![c] = "run"]
    /\ box_writer' = [box_writer EXCEPT ![c] =
            [key |-> hs_keys[c].write_key, noncegen |-> hs_keys[c].write_noncegen]]
    /\ box_reader' = [box_reader EXCEPT ![c] =
            [key |-> hs_keys[c].read_key, noncegen |-> hs_keys[c].read_noncegen]]
    /\ task' = [task EXCEPT ![c] = "read"]
    /\ UNCHANGED <<ui, listener, via, inbound, remote, peer, hs_keys, queue, tx, wout,
                   win, eof, rgen, emitted, drawn, enq, inlog, ntamper, UBus>>


(* --------------------------- reader, writer --------------------------- *)
\* io::Error kind carried by ConnectionClosed(Err(..)) for a recv error
ErrKind(res) == IF res = "Io" THEN "UnexpectedEof" ELSE res

\* one turn of the reader loop: recv, once the bytes it waits for are there
\* (or the stream ended), then the event it leads to.  init_chat_handle: a
\* frame or a goodbye is forwarded as MessageReceived and the loop goes on; an
\* error leaves the loop through `?` and ConnectionClosed(Err) is sent.
\* spawn_reader_loop: the same, but on an error the thread just returns it.
ReaderStep(c) ==
    /\ Alive /\ task[c] = "read"
    /\ LET r == recv(box_reader[c], win[c], eof[c])
           maybe_bytes == [some |-> r.res = "Some", body |-> r.body]
           msg == PeerManagerEvent(peer[c], c, "MessageReceived",
                                   PeerMsgOf(maybe_bytes), "")
           closed == PeerManagerEvent(peer[c], c, "ConnectionClosed", <<>>,
                                      ErrKind(r.res))
       IN  /\ r.res # "blocked"
           /\ box_reader' = [box_reader EXCEPT ![c] = r.self]
           /\ win' = [win EXCEPT ![c] = r.stream]
           /\ drawn' = [drawn EXCEPT ![c].r = @ \o Draws(box_reader[c].key, r.drawn)]
           /\ got' = [got EXCEPT ![c] = Append(@, [res |-> r.res, body |-> r.body])]
           /\ IF r.res \in {"Some", "None"}
              THEN /\ pm_chan' = Append(pm_chan, msg)
                   /\ emitted' = [emitted EXCEPT ![c] = Append(@, msg)]
                   /\ task' = task
              ELSE IF via[c] = "pm"
              THEN /\ pm_chan' = Append(pm_chan, closed)
                   /\ emitted' = [emitted EXCEPT ![c] = Append(@, closed)]
                   /\ task' = [task EXCEPT ![c] = "closed"]
              ELSE /\ task' = [task EXCEPT ![c] = "exited"]
                   /\ UNCHANGED <<pm_chan, emitted>>
    /\ UNCHANGED <<ui, listener, via, inbound, remote, peer, writer, hs_keys, box_writer,
                   queue, tx, wout, eof, rgen, bus, consumed, enq, inlog, nother,
                   ntamper, lim, UApp>>

\* a writer loop that would take the newest message of the channel
WriterSend_newest(c, io) ==
    /\ Alive /\ writer[c] = "run" /\ Len(queue[c]) > 0
    /\ io # "ok" => eof[c]
    /\ LET peer_msg == queue[c][Len(queue[c])]
           s == send(box_writer[c], peer_msg, io)
       IN  /\ queue' = [queue EXCEPT ![c] = SubSeq(@, 1, Len(@) - 1)]
           /\ wout' = [wout EXCEPT ![c] = @ \o s.out]
           /\ drawn' = [drawn EXCEPT ![c].w = @ \o Draws(box_writer[c].key, s.drawn)]
           /\ writer' = [writer EXCEPT ![c] = IF s.r = "Ok" THEN "run" ELSE "panicked"]
    /\ UNCHANGED <<ui, listener, via, inbound, remote, peer, task, hs_keys, box_writer,
                   box_reader, tx, win, eof, rgen, emitted, enq, inlog, ntamper, UBus>>

\* one turn of the writer loop with a message in the channel:
\* box_writer.send(bytes).unwrap().  send takes the writer by value, so the
\* loop's box_writer is what it was before the call.
WriterSend(c, io) ==
    /\ Alive /\ writer[c] = "run" /\ Len(queue[c]) > 0
    /\ io # "ok" => eof[c]
    /\ LET peer_msg == Head(queue[c])
           s == send(box_writer[c], peer_msg, io)
       IN  /\ queue' = [queue EXCEPT ![c] = Tail(@)]
           /\ wout' = [wout EXCEPT ![c] = @ \o s.out]
           /\ drawn' = [drawn EXCEPT ![c].w = @ \o Draws(box_writer[c].key, s.drawn)]
           /\ writer' = [writer EXCEPT ![c] = IF s.r = "Ok" THEN "run" ELSE "panicked"]
    /\ UNCHANGED <<ui, listener, via, inbound, remote, peer, task, hs_keys, box_writer,
                   box_reader, tx, win, eof, rgen, emitted, enq, inlog, ntamper, UBus>>

\* rx.recv()? with the channel empty and every Sender dropped: the writer
\* thread returns Err(RecvError)
WriterExit(c) ==
    /\ Alive /\ writer[c] = "run" /\ Len(queue[c]) = 0 /\ tx[c] = "dropped"
    /\ writer' = [writer EXCEPT ![c] = "done"]
    /\ UNCHANGED <<ui, listener, via, inbound, remote, peer, task, hs_keys, box_writer,
                   box_reader, queue, tx, wout, win, eof, rgen, emitted, drawn, enq,
                   inlog, ntamper, UBus>>

(* ------------------------------- event -------------------------------- *)
\* the input, tick and discovery threads of Events::with_config
OtherProducer(kind) ==
    /\ Alive /\ nother < lim.other /\ kind \in lim.kinds
    /\ bus' = Append(bus, OtherEvent(kind))
    /\ emitted' = [emitted EXCEPT ![0] = Append(@, OtherEvent(kind))]
    /\ nother' = nother + 1
    /\ UNCHANGED <<ui, listener, via, inbound, remote, peer, task, writer, hs_keys,
                   box_writer, box_reader, queue, tx, wout, win, eof, rgen, drawn, enq,
                   inlog, ntamper, lim, got, pm_chan, consumed, UApp>>

\* a relay that would put the event ahead of those waiting in the channel
Relay_ahead ==
    /\ Alive /\ Len(pm_chan) > 0
    /\ bus' = <<Head(pm_chan)>> \o bus
    /\ pm_chan' = Tail(pm_chan)
    /\ UNCHANGED <<ui, listener, UNet, consumed, nother>>

\* the _pm_handle thread: cm_rx.recv(), tx.send(Event::PeerManagerEvent(..))
Relay ==
    /\ Alive /\ Len(pm_chan) > 0
    /\ bus' = Append(bus, Head(pm_chan))
    /\ pm_chan' = Tail(pm_chan)
    /\ UNCHANGED <<ui, listener, UNet, consumed, nother>>

\* Events::next on the UI thread; with HandshakeSuccessful the Sender it
\* carries passes to the application
next ==
    /\ UiTurn /\ listener # "off" /\ Len(bus) > 0
    /\ LET e == Head(bus)
       IN  /\ consumed' = [consumed EXCEPT ![e.conn] = Append(@, e)]
           /\ tx' = IF e.event = "HandshakeSuccessful"
                    THEN [tx EXCEPT ![e.conn] = "app"] ELSE tx
    /\ bus' = Tail(bus)
    /\ UNCHANGED <<ui, listener, via, inbound, remote, peer, task, writer, hs_keys,
                   box_writer, box_reader, queue, wout, win, eof, rgen, pm_chan,
                   emitted, drawn, enq, inlog, nother, ntamper, lim, got, UApp>>

(* -------------------------------- app --------------------------------- *)
\* tx.send(peer_chat.input.clone()).unwrap() on the UI thread
AppSend(c, m) ==
    /\ UiTurn /\ listener # "off" /\ tx[c] = "app"
    /\ SumLen(enq, Conn) < lim.out
    /\ IF RxAlive(c)
       THEN /\ queue' = [queue EXCEPT ![c] = Append(@, m)]
            /\ enq' = [enq EXCEPT ![c] = Append(@, m)]
            /\ ui' = ui
       ELSE /\ ui' = "panicked"
            /\ UNCHANGED <<queue, enq>>
    /\ UNCHANGED <<listener, via, inbound, remote, peer, task, writer, hs_keys,
                   box_writer, box_reader, tx, wout, win, eof, rgen, emitted, drawn,
                   inlog, ntamper, UBus>>

\* the application lets go of the Sender (chat.peer_tx = None)
DropSender(c) ==
    /\ UiTurn /\ tx[c] = "app"
    /\ tx' = [tx EXCEPT ![c] = "dropped"]
    /\ UNCHANGED <<ui, listener, via, inbound, remote, peer, task, writer, hs_keys,
                   box_writer, box_reader, queue, wout, win, eof, rgen, emitted, drawn,
                   enq, inlog, ntamper, UBus>>

\* an input thread on a rendezvous channel: its send would wait until the
\* consumer has taken what is on the bus
KeyPress_sync(key) ==
    /\ Alive /\ producer.input = "run" /\ nother < lim.other
    /\ Len(bus) = 0
    /\ bus' = Append(bus, InputEvent(key))
    /\ emitted' = [emitted EXCEPT ![0] = Append(@, InputEvent(key))]
    /\ producer' = [producer EXCEPT !.input = IF key = "q" THEN "done" ELSE @]
    /\ nother' = nother + 1
    /\ UNCHANGED <<ui, listener, via, inbound, remote, peer, task, writer, hs_keys,
                   box_writer, box_reader, queue, tx, wout, win, eof, rgen,
                   drawn, enq, inlog, ntamper, lim, got, pm_chan, consumed, app, nturn>>

\* the input thread: stdin.keys() yields key, tx.send(Event::Input(key)); the
\* thread returns after the exit key
KeyPress(key) ==
    /\ Alive /\ producer.input = "run" /\ nother < lim.other
    /\ bus' = Append(bus, InputEvent(key))
    /\ emitted' = [emitted EXCEPT ![0] = Append(@, InputEvent(key))]
    /\ producer' = [producer EXCEPT !.input = IF key = "q" THEN "done" ELSE @]
    /\ nother' = nother + 1
    /\ UNCHANGED <<ui, listener, via, inbound, remote, peer, task, writer, hs_keys,
                   box_writer, box_reader, queue, tx, wout, win, eof, rgen,
                   drawn, enq, inlog, ntamper, lim, got, pm_chan, consumed, app, nturn>>

\* one turn of the discovery thread's loop: peer_listener.recv() on datagram
\* d, or on a receive error; Ok is forwarded as NewPeer, Err is dropped, and
\* the from_utf8(..).unwrap() of recv panics the thread
NewPeerStep(io_ok, d) ==
    /\ Alive /\ producer.new_peer = "run" /\ nother < lim.other
    /\ LET r == PeerListener_recv(io_ok, d)
       IN  /\ bus' = IF r.r = "Ok" THEN Append(bus, NewPeerEvent(r.public_key)) ELSE bus
           /\ emitted' = [emitted EXCEPT ![0] =
                    IF r.r = "Ok" THEN Append(@, NewPeerEvent(r.public_key)) ELSE @]
           /\ producer' = [producer EXCEPT !.new_peer = IF r.r = "panic" THEN "panicked"
                                                        ELSE @]
    /\ nother' = nother + 1
    /\ UNCHANGED <<ui, listener, via, inbound, remote, peer, task, writer, hs_keys,
                   box_writer, box_reader, queue, tx, wout, win, eof, rgen,
                   drawn, enq, inlog, ntamper, lim, got, pm_chan, consumed, app, nturn>>

\* a datagram reaches the discovery thread while it is inside
\* DiscoveryService::recv: Ok is forwarded as NewPeer and Err is dropped, both
\* followed by the next call; a self-echo leaves the thread one invocation
\* deeper; the from_utf8(..).unwrap() panics the thread
DiscoveryStep(jump, io_ok, d) ==
    /\ Alive /\ producer.new_peer = "run" /\ nother < lim.other
    /\ LET r == DiscoveryService_recv(LocalPk, producer.depth, jump, io_ok, d)
       IN  /\ bus' = IF r.r = "Ok" THEN Append(bus, NewPeerEvent(r.public_key)) ELSE bus
           /\ emitted' = [emitted EXCEPT ![0] =
                    IF r.r = "Ok" THEN Append(@, NewPeerEvent(r.public_key)) ELSE @]
           /\ producer' = [producer EXCEPT
                    !.new_peer = IF r.r = "panic" THEN "panicked" ELSE @,
                    !.depth = r.depth]
    /\ nother' = nother + 1
    /\ UNCHANGED <<ui, listener, via, inbound, remote, peer, task, writer, hs_keys,
                   box_writer, box_reader, queue, tx, wout, win, eof, rgen,
                   drawn, enq, inlog, ntamper, lim, got, pm_chan, consumed, app, nturn>>

\* the connector of an outbound connection whose handshake failed sends
\* HandshakeFailed for the peer it dialled, and exits
EmitHandshakeFailed(c) ==
    /\ Alive /\ task[c] = "hs_failed" /\ ~inbound[c]
    /\ LET e == PeerManagerEvent(peer[c], c, "HandshakeFailed", <<>>, "")
       IN  /\ pm_chan' = Append(pm_chan, e)
           /\ emitted' = [emitted EXCEPT ![c] = Append(@, e)]
    /\ task' = [task EXCEPT ![c] = "hs_reported"]
    /\ UNCHANGED <<ui, listener, via, inbound, remote, peer, writer, hs_keys, box_writer,
                   box_reader, queue, tx, wout, win, eof, rgen, bus, consumed, drawn, enq,
                   inlog, nother, ntamper, lim, got, UApp>>

\* the caller of from_handshake publishes HandshakeSuccessful for the
\* PeerConnection it got back: both loops of the connection already run
PublishConnection(c) ==
    /\ Alive /\ via[c] = "pc" /\ task[c] \in {"read", "exited"}
    /\ \A i \in 1..Len(emitted[c]) : emitted[c][i].event # "HandshakeSuccessful"
    /\ LET e == PeerManagerEvent(peer[c], c, "HandshakeSuccessful", <<>>, "")
       IN  /\ pm_chan' = Append(pm_chan, e)
           /\ emitted' = [emitted EXCEPT ![c] = Append(@, e)]
    /\ tx' = [tx EXCEPT ![c] = "bus"]
    /\ UNCHANGED <<ui, listener, via, inbound, remote, peer, task, writer, hs_keys,
                   box_writer, box_reader, queue, wout, win, eof, rgen, bus, consumed,
                   drawn, enq, inlog, nother, ntamper, lim, got, UApp>>

\* Event::Input(key) in App::run: handle_input and the call it makes
OnInput(key) ==
    LET h == handle_input(app, key)
    IN  CASE h.eff = "none" ->
                /\ app' = h.app
                /\ UNCHANGED <<ui, queue, enq, via, peer, task, tx>>
          [] h.eff = "panic" ->
                /\ ui' = "panicked"
                /\ UNCHANGED <<app, queue, enq, via, peer, task, tx>>
          [] h.eff = "send" ->
                IF RxAlive(h.conn)
                THEN /\ queue' = [queue EXCEPT ![h.conn] = Append(@, h.msg)]
                     /\ enq' = [enq EXCEPT ![h.conn] = Append(@, h.msg)]
                     /\ app' = h.app
                     /\ UNCHANGED <<ui, via, peer, task, tx>>
                ELSE /\ ui' = "panicked"
                     /\ UNCHANGED <<app, queue, enq, via, peer, task, tx>>
          [] OTHER ->
                \E c \in Conn, connected \in BOOLEAN :
                    /\ FreeSlot(c)
                    /\ ~connected => lim.faults
                    /\ Dial(c, h.peer, connected)
                    /\ app' = IF connected THEN h.app ELSE app
                    /\ UNCHANGED <<queue, enq>>

\* one turn of the loop of App::run: events.next() and the arm of the match
\* for the event
run ==
    /\ UiTurn /\ listener # "off" /\ Len(bus) > 0 /\ nturn < MaxTurns
    /\ LET e == Head(bus)
       IN  /\ consumed' = [consumed EXCEPT ![e.conn] = Append(@, e)]
           /\ CASE e.event = "Input" -> OnInput(e.key)
                [] e.event = "Tick" ->
                        UNCHANGED <<app, ui, queue, enq, via, peer, task, tx>>
                [] e.event = "NewPeer" ->
                        /\ \E at \in 1..(Len(app.available_peers) + 1) :
                                app' = OnNewPeer(app, e.peer, at)
                        /\ UNCHANGED <<ui, queue, enq, via, peer, task, tx>>
                [] OTHER ->
                        /\ app' = OnPeerManagerEvent(app, e)
                        /\ tx' = IF e.event = "HandshakeSuccessful"
                                 THEN [tx EXCEPT ![e.conn] = "app"] ELSE tx
                        /\ UNCHANGED <<ui, queue, enq, via, peer, task>>
    /\ bus' = Tail(bus)
    /\ nturn' = nturn + 1
    /\ UNCHANGED <<listener, inbound, remote, writer, hs_keys, box_writer, box_reader,
                   wout, win, eof, rgen, pm_chan, emitted, drawn, inlog, nother, ntamper,
                   lim, got, producer>>

(* --------------------------- the remote end --------------------------- *)
\* the session exists and the remote has not closed its side
Connected(c) == hs_keys[c] # NoKeys /\ ~eof[c]

\* a peer that follows the protocol writes a frame: it seals with the key we
\* read with and its own generator, which it advances
RemoteSend(c, b) ==
    /\ Alive /\ Connected(c) /\ b \in lim.bodies
    /\ SumLen(inlog, Conn) < lim.in
    /\ LET s == seal(b, hs_keys[c].read_key, rgen[c])
       IN  /\ win' = [win EXCEPT ![c] =
                        @ \o <<s.head>> \o (IF Len(b) = 0 THEN <<>> ELSE <<s.body>>)]
           /\ rgen' = [rgen EXCEPT ![c] = s.noncegen]
    /\ inlog' = [inlog EXCEPT ![c] = Append(@, [some |-> TRUE, body |-> b])]
    /\ UNCHANGED <<ui, listener, via, inbound, remote, peer, task, writer, hs_keys,
                   box_writer, box_reader, queue, tx, wout, eof, emitted, drawn, enq,
                   ntamper, UBus>>

\* the peer writes a goodbye header
RemoteGoodbye(c) ==
    /\ Alive /\ Connected(c)
    /\ SumLen(inlog, Conn) < lim.in
    /\ LET g == send_goodbye([key |-> hs_keys[c].read_key, noncegen |-> rgen[c]], "ok")
       IN  /\ win' = [win EXCEPT ![c] = @ \o g.out]
           /\ rgen' = [rgen EXCEPT ![c] = g.self.noncegen]
    /\ inlog' = [inlog EXCEPT ![c] = Append(@, [some |-> FALSE, body |-> <<>>])]
    /\ UNCHANGED <<ui, listener, via, inbound, remote, peer, task, writer, hs_keys,
                   box_writer, box_reader, queue, tx, wout, eof, emitted, drawn, enq,
                   ntamper, UBus>>

\* the peer (or the network) ends the stream
RemoteClose(c) ==
    /\ Alive /\ Connected(c)
    /\ Cardinality({d \in Conn : eof[d]}) < lim.close
    /\ eof' = [eof EXCEPT ![c] = TRUE]
    /\ UNCHANGED <<ui, listener, via, inbound, remote, peer, task, writer, hs_keys,
                   box_writer, box_reader, queue, tx, wout, win, rgen, emitted, drawn,
                   enq, inlog, ntamper, UBus>>

\* a bit of segment i in flight is flipped: in the header tag, the header
\* ciphertext or the body ciphertext
Flip(seg, part) ==
    IF part = "tag" THEN [seg EXCEPT !.tag.flip = TRUE] ELSE [seg EXCEPT !.ct.flip = TRUE]

Tamper(c, i, part) ==
    /\ Alive /\ ntamper < lim.tamper
    /\ i \in 1..Len(win[c])
    /\ part = "tag" => win[c][i].t = "head"
    /\ win' = [win EXCEPT ![c][i] = Flip(@, part)]
    /\ ntamper' = ntamper + 1
    /\ UNCHANGED <<ui, listener, via, inbound, remote, peer, task, writer, hs_keys,
                   box_writer, box_reader, queue, tx, wout, eof, rgen, emitted, drawn,
                   enq, inlog, UBus>>

(* ----------------------------- two nodes ------------------------------ *)
RECURSIVE FramesOf(_)
\* the bodies of the complete frames of a stream of segments
FramesOf(stream) ==
    IF Len(stream) = 0 THEN <<>>
    ELSE IF stream[1].tag.pt.sz = 0 THEN <<<<>>>> \o FramesOf(Tail(stream))
    ELSE IF Len(stream) = 1 THEN <<>>
    ELSE <<stream[2].ct.pt>> \o FramesOf(Tail(Tail(stream)))

RECURSIVE FrameSegs(_, _)
\* the segments of the k-th frame of a stream of segments
FrameSegs(stream, k) ==
    IF Len(stream) = 0 THEN <<>>
    ELSE LET n == IF stream[1].tag.pt.sz = 0 \/ Len(stream) = 1 THEN 1 ELSE 2
         IN  IF k = 1 THEN SubSeq(stream, 1, n)
             ELSE FrameSegs(SubSeq(stream, n + 1, Len(stream)), k - 1)

\* connections c and d are the two ends of one TCP stream: what c seals with,
\* d opens with
Linked(c, d) ==
    /\ c # d /\ hs_keys[c] # NoKeys
    /\ hs_keys[c].write_key = hs_keys[d].read_key

\* a reliable transport carries the next frame written at c to the other end
Carry(c, d) ==
    /\ Alive /\ Linked(c, d)
    /\ Len(inlog[d]) < Len(FramesOf(wout[c]))
    /\ LET k == Len(inlog[d]) + 1
       IN  /\ win' = [win EXCEPT ![d] = @ \o FrameSegs(wout[c], k)]
           /\ inlog' = [inlog EXCEPT ![d] =
                    Append(@, [some |-> TRUE, body |-> FramesOf(wout[c])[k]])]
    /\ UNCHANGED <<ui, listener, via, inbound, remote, peer, task, writer, hs_keys,
                   box_writer, box_reader, queue, tx, wout, eof, rgen, emitted, drawn,
                   enq, ntamper, UBus>>

\* the keys of the session between node A (connection 1, the client) and
\* node B (connection 2, the server)
SessionKeys(c) ==
    [write_key |-> <<1, IF c = 1 THEN "w" ELSE "r">>, write_noncegen |-> 0,
     read_key |-> <<1, IF c = 1 THEN "r" ELSE "w">>, read_noncegen |-> 0]

\* the events a connection has sent once its handshake is done
HandshakeEvents(c) ==
    (IF c = 2 THEN <<PeerManagerEvent("P", c, "NewConnection", <<>>, "")>> ELSE <<>>)
        \o <<PeerManagerEvent(IF c = 1 THEN "Q" ELSE "P", c, "HandshakeSuccessful",
                              <<>>, "")>>

\* node A (public key P) has dialled node B (public key Q); both handshakes
\* are done, both applications hold their Sender, all four loops run
InitE2E ==
    /\ lim = Limits(2, 0, MaxOut, 0, 0, 0, FALSE, {}, {})
    /\ ui = "run" /\ listener = "run"
    /\ via = [c \in Conn |-> "pm"]
    /\ inbound = [c \in Conn |-> c = 2]
    /\ remote = [c \in Conn |-> IF c = 1 THEN "Q" ELSE "P"]
    /\ peer = [c \in Conn |-> IF c = 1 THEN "Q" ELSE "P"]
    /\ task = [c \in Conn |-> "read"]
    /\ writer = [c \in Conn |-> "run"]
    /\ hs_keys = [c \in Conn |-> SessionKeys(c)]
    /\ box_writer = [c \in Conn |->
            [key |-> SessionKeys(c).write_key, noncegen |-> SessionKeys(c).write_noncegen]]
    /\ box_reader = [c \in Conn |->
            [key |-> SessionKeys(c).read_key, noncegen |-> SessionKeys(c).read_noncegen]]
    /\ queue = [c \in Conn |-> <<>>]
    /\ tx = [c \in Conn |-> "app"]
    /\ wout = [c \in Conn |-> <<>>]
    /\ win = [c \in Conn |-> <<>>]
    /\ eof = [c \in Conn |-> FALSE]
    /\ rgen = [c \in Conn |-> 0]
    /\ pm_chan = <<>> /\ bus = <<>>
    /\ consumed = [c \in Conn \cup {0} |-> IF c = 0 THEN <<>> ELSE HandshakeEvents(c)]
    /\ emitted = [c \in Conn \cup {0} |-> IF c = 0 THEN <<>> ELSE HandshakeEvents(c)]
    /\ drawn = [c \in Conn |-> [w |-> <<>>, r |-> <<>>]]
    /\ enq = [c \in Conn |-> <<>>]
    /\ inlog = [c \in Conn |-> <<>>]
    /\ got = [c \in Conn |-> <<>>]
    /\ nother = 0 /\ ntamper = 0
    /\ producer = Producers /\ app = App_new /\ nturn = 0

(* ------------------------ the codec on a pipe ------------------------- *)
\* A BoxWriter and a BoxReader built from the same key and the same nonce
\* seed, at the two ends of a pipe (connection slot 1 holds them).
CodecKey == <<1, "k">>
Seeds == {0, 5}

\* box_writer.send(body), called the way the writer loops call it: on the
\* same box_writer every time
CodecSend(b) ==
    /\ via[1] = "codec" /\ writer[1] = "run" /\ Len(inlog[1]) < lim.in
    /\ b \in lim.bodies
    /\ LET s == send(box_writer[1], b, "ok")
       IN  /\ win' = [win EXCEPT ![1] = @ \o s.out]
           /\ drawn' = [drawn EXCEPT ![1].w = @ \o Draws(box_writer[1].key, s.drawn)]
           /\ writer' = [writer EXCEPT ![1] = IF s.r = "panic" THEN "panicked" ELSE @]
           /\ inlog' = [inlog EXCEPT ![1] =
                    IF s.r = "Ok" THEN Append(@, [some |-> TRUE, body |-> b]) ELSE @]
    /\ enq' = [enq EXCEPT ![1] = Append(@, b)]
    /\ UNCHANGED <<ui, listener, via, inbound, remote, peer, task, hs_keys,
                   box_writer, box_reader, queue, tx, wout, eof, rgen, emitted,
                   ntamper, UBus>>

\* (box_writer, r) = box_writer.send_goodbye()
CodecGoodbye ==
    /\ via[1] = "codec" /\ writer[1] = "run" /\ Len(inlog[1]) < lim.in
    /\ LET g == send_goodbye(box_writer[1], "ok")
       IN  /\ win' = [win EXCEPT ![1] = @ \o g.out]
           /\ box_writer' = [box_writer EXCEPT ![1] = g.self]
           /\ drawn' = [drawn EXCEPT ![1].w = @ \o Draws(box_writer[1].key, g.drawn)]
    /\ inlog' = [inlog EXCEPT ![1] = Append(@, [some |-> FALSE, body |-> <<>>])]
    /\ UNCHANGED <<ui, listener, via, inbound, remote, peer, task, writer, hs_keys,
                   box_reader, queue, tx, wout, eof, rgen, emitted, enq, ntamper, UBus>>

\* box_reader.recv(), also after a recv that failed
CodecRecv ==
    /\ via[1] = "codec"
    /\ LET r == recv(box_reader[1], win[1], eof[1])
       IN  /\ r.res # "blocked"
           /\ Len(got[1]) <= lim.in
           /\ box_reader' = [box_reader EXCEPT ![1] = r.self]
           /\ win' = [win EXCEPT ![1] = r.stream]
           /\ drawn' = [drawn EXCEPT ![1].r = @ \o Draws(box_reader[1].key, r.drawn)]
           /\ got' = [got EXCEPT ![1] = Append(@, [res |-> r.res, body |-> r.body])]
    /\ UNCHANGED <<ui, listener, via, inbound, remote, peer, task, writer, hs_keys,
                   box_writer, queue, tx, wout, eof, rgen, pm_chan, bus, consumed,
                   emitted, enq, inlog, nother, ntamper, lim, UApp>>

InitCodecWith(l) ==
    \E seed \in Seeds :
        LET keys == [write_key |-> CodecKey, write_noncegen |-> seed,
                     read_key |-> CodecKey, read_noncegen |-> seed]
        IN  /\ lim = l
            /\ ui = "run" /\ listener = "off"
            /\ via = [c \in Conn |-> IF c = 1 THEN "codec" ELSE "none"]
            /\ inbound = [c \in Conn |-> FALSE]
            /\ remote = [c \in Conn |-> "none"]
            /\ peer = [c \in Conn |-> "none"]
            /\ task = [c \in Conn |-> "none"]
            /\ writer = [c \in Conn |-> IF c = 1 THEN "run" ELSE "none"]
            /\ hs_keys = [c \in Conn |-> IF c = 1 THEN keys ELSE NoKeys]
            /\ box_writer = [c \in Conn |-> IF c = 1
                    THEN [key |-> CodecKey, noncegen |-> seed] ELSE NoBox]
            /\ box_reader = [c \in Conn |-> IF c = 1
                    THEN [key |-> CodecKey, noncegen |-> seed] ELSE NoBox]
            /\ queue = [c \in Conn |-> <<>>]
            /\ tx = [c \in Conn |-> "none"]
            /\ wout = [c \in Conn |-> <<>>]
            /\ win = [c \in Conn |-> <<>>]
            /\ eof = [c \in Conn |-> FALSE]
            /\ rgen = [c \in Conn |-> 0]
            /\ pm_chan = <<>> /\ bus = <<>>
            /\ consumed = [c \in Conn \cup {0} |-> <<>>]
            /\ emitted = [c \in Conn \cup {0} |-> <<>>]
            /\ drawn = [c \in Conn |-> [w |-> <<>>, r |-> <<>>]]
            /\ enq = [c \in Conn |-> <<>>]
            /\ inlog = [c \in Conn |-> <<>>]
            /\ got = [c \in Conn |-> <<>>]
            /\ nother = 0 /\ ntamper = 0
            /\ producer = Producers /\ app = App_new /\ nturn = 0

(* ------------------------------- system ------------------------------- *)
\* connections as PeerManager (peer_manager.rs) makes them
Manager ==
    \/ \E ok \in BOOLEAN : StartListener(ok)
    \/ \E c \in Conn : Accept(c)
    \/ \E c \in Conn, p \in Peers, ok \in BOOLEAN : init_handshake(c, p, ok)
    \/ \E c \in Conn, ok \in BOOLEAN, r \in Peers : AttemptHandshake(c, ok, r)
    \/ \E c \in Conn : PublishHandshake(c)
    \/ \E c \in Conn : SpawnWriter(c)

\* connections as Handshaker / PeerConnection::from_handshake
\* (peer_connection.rs) makes them
Handshaker ==
    \/ \E c \in Conn, p \in Peers, ok \in BOOLEAN : client_handshake(c, p, ok)
    \/ \E c \in Conn : server_handshake(c)

Reader == \E c \in Conn : ReaderStep(c)

Writer ==
    \/ \E c \in Conn, io \in {"ok", "head_fail", "body_fail"} : WriterSend(c, io)
    \/ \E c \in Conn : WriterExit(c)

\* the relay thread and the consumer of the event bus
Pipe == Relay \/ next

Others == \E kind \in {"Input", "Tick", "NewPeer"} : OtherProducer(kind)

App ==
    \/ \E c \in Conn, m \in Strings : AppSend(c, m)
    \/ \E c \in Conn : DropSender(c)

RemoteData == \E c \in Conn, b \in Bodies \cup SizedBodies : RemoteSend(c, b)

RemoteFrames == RemoteData \/ \E c \in Conn : RemoteGoodbye(c)

RemoteCloses == \E c \in Conn : RemoteClose(c)

Tampers == \E c \in Conn, i \in 1..(2 * lim.in), part \in {"tag", "ct"} : Tamper(c, i, part)

\* two connections, made either way, with frames in both directions over a
\* sound transport
Init == InitWith(Limits(2, MaxIn - 1, MaxOut - 1, 0, 0, 0, FALSE, {<<65>>}, {}))
Next == Manager \/ Handshaker \/ Reader \/ Writer \/ Pipe \/ App \/ RemoteFrames
Spec == Init /\ [][Next]_vars

\* one connection, its inbound direction: frames, goodbye, end of stream and
\* flipped bits
InitRecv == InitWith(Limits(1, MaxIn, 0, 0, MaxTamper, 1, TRUE, Bodies, {}))
NextRecv == Manager \/ Handshaker \/ Reader \/ Pipe \/ RemoteFrames \/ RemoteCloses
                \/ Tampers
SpecRecv == InitRecv /\ [][NextRecv]_vars

\* one connection, its outbound direction: the application's messages, the
\* writer, a transport that breaks
InitSend == InitWith(Limits(1, 0, MaxOut, 0, 0, 1, TRUE, {}, {}))
NextSend == Manager \/ Handshaker \/ Reader \/ Writer \/ Pipe \/ App \/ RemoteCloses
SpecSend == InitSend /\ [][NextSend]_vars

\* two PeerManager connections and the other producers feeding the event bus
InitBus == InitWith(Limits(2, MaxIn, 0, MaxOther, 0, 0, FALSE, {<<65>>, <<255>>}, {"Tick"}))
NextBus == Manager \/ Reader \/ Pipe \/ Others \/ RemoteData
SpecBus == InitBus /\ [][NextBus]_vars

\* the listener and the dialler step by step: accepts that succeed or fail,
\* an outbound connect that takes time, and events arriving meanwhile
Listening ==
    \/ \E ok \in BOOLEAN : StartListener(ok)
    \/ \E c \in Conn : Accept(c)
    \/ AcceptErr
Dialling ==
    \/ \E c \in Conn, p \in Peers : ConnectBegin(c, p)
    \/ \E c \in Conn, ok \in BOOLEAN : ConnectEnd(c, ok)
Sessions ==
    \/ \E c \in Conn, ok \in BOOLEAN, r \in Peers : AttemptHandshake(c, ok, r)
    \/ \E c \in Conn : PublishHandshake(c)
    \/ \E c \in Conn : SpawnWriter(c)
InitConnect == InitWith(Limits(2, MaxIn - 1, 0, MaxOther, 0, 0, TRUE, {<<65>>}, {"Tick"}))
NextConnect == Listening \/ Dialling \/ Sessions \/ Reader \/ Pipe \/ Others \/ RemoteData
SpecConnect == InitConnect /\ [][NextConnect]_vars

\* the discovery thread and the consumer of its events
Discovery == \E io_ok \in BOOLEAN, d \in Datagrams : NewPeerStep(io_ok, d)
InitDiscovery == InitWith(Limits(0, 0, 0, MaxOther + 2, 0, 0, TRUE, {}, {}))
NextDiscovery == (\E ok \in BOOLEAN : StartListener(ok)) \/ Discovery \/ next
SpecDiscovery == InitDiscovery /\ [][NextDiscovery]_vars

\* the four producers of the event bus and its consumer
Keyboard == \E key \in {"a", "j"} : KeyPress(key)
Announcements == \E pk \in Peers : NewPeerStep(TRUE, Announce(pk))
InitEvents == InitWith(Limits(1, MaxIn - 1, 0, MaxOther + 3, 0, 0, FALSE, {<<65>>}, {"Tick"}))
NextEvents == StartListener(TRUE) \/ (\E c \in Conn : Accept(c)) \/ Sessions \/ Reader \/ Pipe \/ Others
                \/ Keyboard \/ Announcements \/ RemoteData
SpecEvents == InitEvents /\ [][NextEvents]_vars

\* a debug log of n entries, as n Enter keys without a selection leave it
Filled(n) ==
    [i \in 1..n |-> [entry |-> Text("No peer selected. Cannot initialize handshake", <<>>),
                     level |-> "ERROR"]]

\* the application at work: a peer is announced, the user selects it and
\* presses Enter, the handshake fails or succeeds, the peer closes.  The
\* debug log starts empty, one short of full, or full.
Typing == \E key \in {"j", "Enter", "a"} : KeyPress(key)
Failures == \E c \in Conn : EmitHandshakeFailed(c)
InitApp ==
    \E n \in {0, LogCap, LogCap + 1} :
        InitState(Limits(1, 0, MaxOut, MaxOther + 3, 0, 1, TRUE, {}, {}), "run",
                  [App_new EXCEPT !.debug_log = Filled(n)])
NextApp == (\E c \in Conn : Accept(c)) \/ Sessions \/ Failures \/ Reader
                \/ (\E c \in Conn : WriterSend(c, "ok")) \/ Relay \/ run \/ Typing
                \/ NewPeerStep(TRUE, Announce("P")) \/ RemoteCloses
SpecApp == InitApp /\ [][NextApp]_vars

\* connections made either way, their HandshakeSuccessful and their first
\* frames on the way to the application
Constructing ==
    \/ \E c \in Conn, p \in Peers : client_handshake(c, p, TRUE)
    \/ \E c \in Conn : server_handshake(c)
    \/ \E c \in Conn : PublishConnection(c)
    \/ \E c \in Conn : Accept(c)
InitChat ==
    InitState(Limits(2, MaxIn, 0, 0, 0, 0, FALSE, {<<65>>}, {}), "run", App_new)
NextChat == Constructing \/ Sessions \/ Reader \/ Relay \/ run \/ RemoteData
SpecChat == InitChat /\ [][NextChat]_vars

\* two PeerManager connections, accepted or dialled, possibly with the same
\* peer; the application handles their events, and one of them ends
Pairing ==
    \/ \E c \in Conn : Accept(c)
    \/ \E c \in Conn, p \in Peers : init_handshake(c, p, TRUE)
InitPair == InitState(Limits(2, 0, 0, 0, 0, 1, FALSE, {}, {}), "run", App_new)
NextPair == Pairing \/ Sessions \/ Reader \/ Relay \/ run \/ RemoteCloses
SpecPair == InitPair /\ [][NextPair]_vars

\* the peer list and the selection: peers are announced while the user moves
\* the selection, opens a chat and types
Selecting == \E key \in {"j", "k", "Esc", "Enter", "a"} : KeyPress(key)
InitSelect == InitState(Limits(2, 0, 0, MaxOther + 4, 0, 0, FALSE, {}, {}), "run", App_new)
NextSelect == Selecting \/ Announcements \/ run
SpecSelect == InitSelect /\ [][NextSelect]_vars

\* one chat from the announcement to the message: the peer is announced, the
\* user selects it, presses Enter, the handshake succeeds, the user types and
\* presses Enter again; the peer may close the connection at any time, and
\* a write to a closed connection fails
InitType == InitState(Limits(1, 0, MaxOut, MaxOther + 4, 0, 1, TRUE, {}, {}), "run", App_new)
NextType == NewPeerStep(TRUE, Announce("P")) \/ Typing \/ run \/ Sessions \/ Relay \/ Reader
                \/ (\E c \in Conn, io \in {"ok", "head_fail"} : WriterSend(c, io))
                \/ RemoteCloses
SpecType == InitType /\ [][NextType]_vars

\* the discovery thread on DiscoveryService: announcements of other peers,
\* the node's own announcements coming back, and datagrams that are none
Echoes == \E jump, io_ok \in BOOLEAN, d \in Datagrams : DiscoveryStep(jump, io_ok, d)
InitEcho == InitState(Limits(0, 0, 0, MaxOther + 3, 0, 0, TRUE, {}, {}), "run", App_new)
NextEcho == Echoes \/ next
SpecEcho == InitEcho /\ [][NextEcho]_vars

\* one connection whose remote end seals bodies at and around the length
\* limit
InitOversize == InitWith(Limits(1, MaxIn - 1, 0, 0, 0, 0, FALSE, SizedBodies, {}))
NextOversize == Manager \/ Handshaker \/ Reader \/ Pipe \/ RemoteData
SpecOversize == InitOversize /\ [][NextOversize]_vars

\* two nodes with a session between them, a reliable transport and fair
\* scheduling of every thread
Transport == \E c \in Conn, d \in Conn : Carry(c, d)
NextE2E == Reader \/ Writer \/ Pipe \/ App \/ Transport
FairE2E ==
    /\ \A c \in Conn : WF_vars(ReaderStep(c))
    /\ \A c \in Conn : WF_vars(WriterSend(c, "ok")) /\ WF_vars(WriterExit(c))
    /\ \A c \in Conn, d \in Conn : WF_vars(Carry(c, d))
    /\ WF_vars(Relay) /\ WF_vars(next)
SpecE2E == InitE2E /\ [][NextE2E]_vars /\ FairE2E

\* the codec alone: send, send_goodbye and recv on a pipe that may flip bits
\* and end
InitCodec == InitCodecWith(Limits(1, MaxIn, 0, 0, MaxTamper, 1, FALSE, Bodies, {}))
NextCodec ==
    \/ \E b \in Bodies \cup SizedBodies : CodecSend(b)
    \/ CodecGoodbye
    \/ CodecRecv
    \/ RemoteCloses
    \/ Tampers
SpecCodec == InitCodec /\ [][NextCodec]_vars

\* the codec with bodies at and around the length limit
InitSized ==
    InitCodecWith(Limits(1, MaxIn - 1, 0, 0, MaxTamper, 1, FALSE, SizedBodies, {}))
SpecSized == InitSized /\ [][NextCodec]_vars

(* ------------------------------ properties ---------------------------- *)
Last(q) == q[Len(q)]
OpenFailures == {"HeaderOpenFailed", "BodyOpenFailed"}

\* C1: in each direction of a connection every nonce drawn is the previous
\* one plus one, and no nonce is used twice with the same key, whatever
\* sequence of send, send_goodbye and recv calls is made.
C1_NoncesConsecutive ==
    \A c \in Conn : \A t \in {"w", "r"} :
        LET d == drawn[c][t]
        IN  /\ \A i \in 2..Len(d) : d[i].n = d[i - 1].n + 1
            /\ \A i, j \in 1..Len(d) : i # j => d[i] # d[j]

\* C2: a writer and a reader built from the same key and nonce seed, over a
\* sound, open pipe: the i-th recv returns Some(b) for the body b of the i-th send
\* (1 <= |b| <= 4096).
C2_RoundTrip ==
    (/\ via[1] = "codec" /\ ntamper = 0 /\ ~eof[1]
     /\ \A i \in 1..Len(inlog[1]) :
            inlog[1][i].some /\ Len(inlog[1][i].body) \in 1..MaxBody)
    => \A i \in 1..Len(got[1]) :
            i <= Len(inlog[1]) =>
                got[1][i] = [res |-> "Some", body |-> inlog[1][i].body]

\* a bit of the segment was flipped in flight
Flipped(seg) == seg.ct.flip \/ (seg.t = "head" /\ seg.tag.flip)
\* the frame at the head of the stream has a flipped header
HeadFlipped(stream) == Len(stream) > 0 /\ Flipped(stream[1])
\* the frame at the head of the stream has a sound header and a flipped body
BodyFlipped(stream) ==
    /\ Len(stream) > 1 /\ ~Flipped(stream[1])
    /\ stream[1].t = "head" /\ stream[1].tag.pt.sz > 0
    /\ Flipped(stream[2])

\* C3: recv on a frame with a flipped bit in the header tag or the header
\* ciphertext fails with HeaderOpenFailed, on a frame with a flipped bit in the
\* body ciphertext with BodyOpenFailed; it returns no plaintext for the frame.
C3_TamperDetected ==
    [][\A c \in Conn :
          Len(got'[c]) = Len(got[c]) + 1 =>
              LET r == Last(got'[c])
              IN  /\ HeadFlipped(win[c]) =>
                        r.res = "HeaderOpenFailed" /\ r.body = <<>>
                  /\ BodyFlipped(win[c]) =>
                        r.res = "BodyOpenFailed" /\ r.body = <<>>]_vars

\* recv has met a frame with a flipped body, after a sound frame
C3_Tampered ==
    /\ ntamper > 0
    /\ \E c \in Conn : Len(got[c]) > 1 /\ Last(got[c]).res = "BodyOpenFailed"

IsMessage(e) == e.event = "MessageReceived"
IsHandshake(e) == e.event = "HandshakeSuccessful"
MessagesOf(es) == SelectSeq(es, IsMessage)
RecvErrors == OpenFailures \cup {"Io"}

\* C4: a recv that fails (open failure or short read) is the last recv of the
\* connection: the reader task has sent ConnectionClosed(Err(kind)) as its last
\* event, no MessageReceived for the failing frame, and has left its loop.
C4_ReaderStopsOnError ==
    \A c \in Conn : \A i \in 1..Len(got[c]) :
        got[c][i].res \in RecvErrors =>
            /\ i = Len(got[c])
            /\ task[c] # "read"
            /\ Len(MessagesOf(emitted[c])) = i - 1
            /\ Len(emitted[c]) > 0
            /\ Last(emitted[c]).event = "ConnectionClosed"
            /\ Last(emitted[c]).status = ErrKind(got[c][i].res)

\* C5: a goodbye frame ends the reader: every frame before it has led to one
\* MessageReceived, the goodbye leads to ConnectionClosed(Ok) and to no
\* MessageReceived, and recv is not called again.
C5_GoodbyeEndsReader ==
    \A c \in Conn : \A i \in 1..Len(got[c]) :
        got[c][i].res = "None" =>
            /\ i = Len(got[c])
            /\ task[c] # "read"
            /\ Len(MessagesOf(emitted[c])) = i - 1
            /\ Last(emitted[c]).event = "ConnectionClosed"
            /\ Last(emitted[c]).status = "Ok"

\* the segment is a goodbye header
IsGoodbye(seg) == seg.t = "head" /\ seg.tag.pt = ZeroPayload

\* C6: a writer task that has left its loop because the channel was closed
\* has written every queued message and then exactly one goodbye frame.
C6_GoodbyeOnClose ==
    \A c \in Conn :
        writer[c] = "done" =>
            /\ Len(queue[c]) = 0
            /\ Len(wout[c]) > 0 /\ IsGoodbye(Last(wout[c]))
            /\ Cardinality({i \in 1..Len(wout[c]) : IsGoodbye(wout[c][i])}) = 1

\* C7: the MessageReceived events of a connection that Events::next has
\* returned are, in order, the messages of the first frames that arrived on
\* it: none is missing, repeated or out of place.
C7_ReceiveOrder ==
    \A c \in Conn :
        LET ms == MessagesOf(consumed[c])
        IN  /\ Len(ms) <= Len(inlog[c])
            /\ \A i \in 1..Len(ms) :
                    ms[i].msg = PeerMsgOf(inlog[c][i]) /\ ms[i].peer = peer[c]

\* two different messages of one connection were consumed, and events of
\* another connection and of another producer as well
C7_Interleaved ==
    \E c, d \in Conn :
        /\ c # d /\ Len(consumed[d]) > 0 /\ Len(consumed[0]) > 0
        /\ Len(MessagesOf(consumed[c])) = 2
        /\ MessagesOf(consumed[c])[1].msg # MessagesOf(consumed[c])[2].msg

\* C8: the frames written to the transport of a connection carry, one each and
\* in order, the first messages accepted by its outbound channel.
C8_SendOrder ==
    \A c \in Conn :
        LET fs == FramesOf(wout[c])
        IN  /\ Len(fs) <= Len(enq[c])
            /\ \A i \in 1..Len(fs) : fs[i] = enq[c][i]

\* two different messages, both written
C8_TwoWritten ==
    \E c \in Conn :
        /\ Len(enq[c]) = 2 /\ enq[c][1] # enq[c][2]
        /\ FramesOf(wout[c]) = enq[c]

\* the keys the tasks of a connection hold
KeysOf(c) == {box_writer[c].key, box_reader[c].key}

\* C9: the nonces the writer task draws are drawn with the write key, those
\* the reader task draws with the read key; no (key, nonce) is drawn by both,
\* and two connections have no key in common.
C9_GeneratorsNotShared ==
    \A c \in Conn :
        /\ \A i \in 1..Len(drawn[c].w) : drawn[c].w[i].key = hs_keys[c].write_key
        /\ \A i \in 1..Len(drawn[c].r) : drawn[c].r[i].key = hs_keys[c].read_key
        /\ \A i \in 1..Len(drawn[c].w), j \in 1..Len(drawn[c].r) :
                drawn[c].w[i] # drawn[c].r[j]
        /\ box_writer[c] # NoBox => box_writer[c].key # box_reader[c].key
        /\ \A d \in Conn :
                (d # c /\ box_writer[c] # NoBox /\ box_writer[d] # NoBox)
                    => KeysOf(c) \cap KeysOf(d) = {}

\* two connections with their tasks built, one of which has drawn in both
\* directions
C9_BothBuilt ==
    \E c, d \in Conn :
        /\ c # d
        /\ Len(drawn[c].w) > 0 /\ Len(drawn[c].r) > 0
        /\ box_writer[d] # NoBox /\ box_reader[d] # NoBox

\* the handshake of connection c has completed and the thread is past the
\* first statement of init_connection
Published(c) == task[c] \in {"spawn", "read", "closed"}

\* C10: a PeerManager connection whose handshake completed has published
\* exactly one HandshakeSuccessful event, whose peer is the remote peer's public
\* key and whose Sender reaches the consumer of the bus; no other has any.
C10_OneHandshakeEvent ==
    \A c \in Conn :
        via[c] = "pm" =>
            LET hs == SelectSeq(emitted[c], IsHandshake)
            IN  /\ Len(hs) = IF Published(c) THEN 1 ELSE 0
                /\ \A i \in 1..Len(hs) : hs[i].peer = remote[c]
                /\ Len(SelectSeq(consumed[c], IsHandshake)) <= Len(hs)
                /\ tx[c] = "app" <=> Len(SelectSeq(consumed[c], IsHandshake)) = 1

\* an inbound and an outbound connection, the event of each consumed
C10_BothPublished ==
    \E c, d \in Conn :
        /\ inbound[c] /\ ~inbound[d] /\ via[d] = "pm"
        /\ Len(SelectSeq(consumed[c], IsHandshake)) = 1
        /\ Len(SelectSeq(consumed[d], IsHandshake)) = 1

IsClosed(e) == e.event = "ConnectionClosed"

\* C11: an outbound PeerManager connection whose handshake attempt failed has
\* sent a HandshakeFailed event for the peer as its last event, and no
\* HandshakeSuccessful.
C11_HandshakeFailedEvent ==
    \A c \in Conn :
        (via[c] = "pm" /\ ~inbound[c] /\ task[c] = "hs_failed") =>
            /\ Len(emitted[c]) > 0
            /\ Last(emitted[c]).event = "HandshakeFailed"
            /\ Last(emitted[c]).peer = peer[c]
            /\ Len(SelectSeq(emitted[c], IsHandshake)) = 0

\* C12: no failure of a connection (connect, handshake, open, short read,
\* write) ends the UI thread or the listener.
C12_FailureConfined == ui # "panicked" /\ listener # "dead"

\* the connection is established and its reader runs
Live(c) == task[c] = "read"

\* C13: no two live connections are with the same peer public key.
C13_OneConnectionPerPeer ==
    \A c, d \in Conn : (c # d /\ Live(c) /\ Live(d)) => remote[c] # remote[d]

\* C14: while the application holds the Sender of a connection that has sent
\* no ConnectionClosed, the Receiver exists: a send on it succeeds.
C14_SenderValid ==
    \A c \in Conn :
        (tx[c] = "app" /\ Len(SelectSeq(emitted[c], IsClosed)) = 0) => RxAlive(c)

\* C17: a writer task that ended on a write failure has reported it: the
\* connection has sent a ConnectionClosed(Err) event.
C17_WriteFailureReported ==
    \A c \in Conn :
        writer[c] = "panicked" =>
            \E i \in 1..Len(emitted[c]) :
                IsClosed(emitted[c][i]) /\ emitted[c][i].status # "Ok"

\* bytes of a segment on the wire: a sealed header is 16 + 18 bytes, a body
\* as many as its plaintext
SegBytes(seg) == IF seg.t = "head" THEN 34 ELSE seg.ct.len
RECURSIVE ByteLen(_)
ByteLen(stream) ==
    IF Len(stream) = 0 THEN 0 ELSE SegBytes(stream[1]) + ByteLen(Tail(stream))

\* C18: send with a body longer than 4096 bytes writes nothing and draws no
\* nonce (the call does not return); send with a body of 1..4096 bytes
\* succeeds and writes 34 + |body| bytes.
C18_SizeLimit ==
    [][(via[1] = "codec" /\ enq'[1] # enq[1]) =>
          LET b == Last(enq'[1])
          IN  IF Len(b) > MaxBody
              THEN win'[1] = win[1] /\ drawn' = drawn /\ writer'[1] = "panicked"
              ELSE /\ ByteLen(win'[1]) = ByteLen(win[1]) + 34 + Len(b)
                   /\ writer'[1] = "run"]_vars

\* a body of 4097 bytes was passed to send
C18_Oversize ==
    /\ via[1] = "codec" /\ Len(enq[1]) = 1
    /\ Len(enq[1][1]) = MaxBody + 1 /\ writer[1] = "panicked"

\* C20: the recv that meets the header send_goodbye wrote, with the reader's
\* generator at the nonce it was sealed with, returns None and takes exactly
\* 34 bytes from the transport.
C20_GoodbyeReceived ==
    [][LET k == Len(got[1]) + 1
       IN  (/\ via[1] = "codec" /\ Len(got'[1]) = k /\ ntamper = 0
            /\ k <= Len(inlog[1]) /\ ~inlog[1][k].some
            /\ \A i \in 1..Len(got[1]) : got[1][i].res \in {"Some", "None"}
            /\ Len(win[1]) > 0 /\ win[1][1].tag.n = box_reader[1].noncegen)
           => /\ got'[1][k].res = "None"
              /\ ByteLen(win[1]) - ByteLen(win'[1]) = 34]_vars

\* a goodbye was received after another one
C20_GoodbyeSeen ==
    /\ via[1] = "codec" /\ Len(got[1]) = 2
    /\ got[1][1].res = "None" /\ got[1][2].res = "None"

\* C19: recv on a frame whose header opens and carries a length above 4096
\* fails with FrameTooLarge, and the reader stops.
C19_FrameTooLarge ==
    \A c \in Conn : \A i \in 1..Len(got[c]) :
        (/\ i <= Len(inlog[c]) /\ inlog[c][i].some
         /\ Len(inlog[c][i].body) > MaxBody
         /\ \A j \in 1..(i - 1) : got[c][j].res \in {"Some", "None"})
        => got[c][i].res = "FrameTooLarge" /\ task[c] # "read"

\* the k-th MessageReceived the consumer got for connection c
Delivered(c, k) == MessagesOf(consumed[c])[k]
ClosedWith(c, ok) ==
    \E i \in 1..Len(consumed[c]) :
        IsClosed(consumed[c][i]) /\ (consumed[c][i].status = "Ok") = ok

\* C15: every message node A enqueues on its Sender is eventually consumed at
\* node B as a MessageReceived with A's public key and the message as body.
C15_Delivery ==
    \A k \in 1..MaxOut :
        [](Len(enq[1]) >= k =>
              <>(/\ Len(MessagesOf(consumed[2])) >= k
                 /\ Delivered(2, k).msg = enq[1][k]
                 /\ Delivered(2, k).peer = "P"))

\* C16: once node A has dropped its Sender, node B eventually consumes
\* ConnectionClosed(Ok) for A, and never ConnectionClosed(Err).
C16_Shutdown ==
    /\ [](tx[1] = "dropped" => <>ClosedWith(2, TRUE))
    /\ [](tx[1] = "dropped" => ~ClosedWith(2, FALSE))

(* C21: init_handshake never blocks its caller on network I/O: while a
   connect is pending, the UI thread can take the next event off the bus. *)
C21_CallerNotBlocked ==
    (\E c \in Conn : task[c] = "connect") /\ Len(bus) > 0 => ENABLED next

(* C22: an error returned by accept does not end the listener loop: once
   started, the listener thread keeps running and accepts later connections,
   also while the handshake of an accepted stream is under way. *)
C22_ListenerSurvives ==
    listener # "off" /\ Alive /\ (\E c \in Conn : FreeSlot(c)) =>
        ENABLED (\E c \in Conn : Accept(c))

(* C23: self-echo suppression: no NewPeer event carries the node's own
   public key, neither on the bus nor among the events the consumer took. *)
C23_NoSelfEcho ==
    /\ \A i \in 1..Len(bus) : ~(bus[i].event = "NewPeer" /\ bus[i].peer = LocalPk)
    /\ \A i \in 1..Len(consumed[0]) :
            ~(consumed[0][i].event = "NewPeer" /\ consumed[0][i].peer = LocalPk)

(* C24: no datagram ends the discovery listener: after any datagram, also a
   malformed one or a failed receive, its thread is still running. *)
C24_DiscoverySurvives == producer.new_peer = "run"

\* the events of es that producer src sent
FromProducer(es, src) == SelectSeq(es, LAMBDA e : e.src = src)
\* the events of es that the tasks of connection c sent
FromConn(es, c) == SelectSeq(es, LAMBDA e : e.conn = c)

(* C25: the event bus loses nothing and blocks no producer: what a producer
   has sent is, in the order it sent it and each event once, what the
   consumer has taken from it followed by what still waits for the consumer;
   and a producer that runs can send whatever waits on the bus already. *)
C25_BusDelivers ==
    /\ \A src \in {"Input", "Tick", "NewPeer"} :
            FromProducer(emitted[0], src) =
                FromProducer(consumed[0], src) \o FromProducer(bus, src)
    /\ \A c \in Conn :
            emitted[c] = consumed[c] \o FromConn(bus, c) \o FromConn(pm_chan, c)
    /\ (Alive /\ nother < lim.other) =>
            /\ producer.input = "run" => ENABLED KeyPress("a")
            /\ ENABLED OtherProducer("Tick")
            /\ producer.new_peer = "run" => ENABLED NewPeerStep(TRUE, Announce("P"))
    /\ (Alive /\ Len(pm_chan) > 0) => ENABLED Relay

\* two different keys were consumed, and a tick, an announcement and an
\* event of a connection as well, while further events wait
C25_AllProducers ==
    /\ Len(FromProducer(consumed[0], "Input")) >= 2
    /\ FromProducer(consumed[0], "Input")[1].key # FromProducer(consumed[0], "Input")[2].key
    /\ Len(FromProducer(consumed[0], "Tick")) >= 1
    /\ Len(FromProducer(consumed[0], "NewPeer")) >= 1
    /\ Len(consumed[1]) >= 1
    /\ Len(bus) >= 1

\* the application handles the event at the head of the bus in this step
Handles(event) == Len(bus) > 0 /\ Head(bus).event = event /\ nturn' = nturn + 1

(* C26: handling a HandshakeFailed event adds exactly one entry to the debug
   log (the log keeps its entries, less the oldest when it is full, and gets
   one ERROR entry at its end) and leaves the available peers, the selection
   and the mode as they were. *)
C26_HandshakeFailedFrame ==
    [][Handles("HandshakeFailed") =>
        LET old == app.debug_log
            new == app'.debug_log
        IN  /\ Len(new) > 0
            /\ new = Append(IF Len(old) > LogCap THEN Tail(old) ELSE old, Last(new))
            /\ Last(new).level = "ERROR"
            /\ app'.available_peers = app.available_peers
            /\ app'.selected = app.selected
            /\ app'.mode = app.mode]_vars

\* a HandshakeFailed event was handled with a peer selected, in Chat mode
\* and with a full debug log: its entry is the last one
C26_FailedLogged ==
    /\ \E c \in Conn : \E i \in 1..Len(consumed[c]) :
            consumed[c][i].event = "HandshakeFailed"
    /\ Len(app.debug_log) = LogCap + 1
    /\ Last(app.debug_log).entry.fmt = "Failed to connect to {}"
    /\ app.selected # NoSel /\ app.mode.kind = "Chat"
    /\ Len(app.available_peers) > 0

(* C27: handling ConnectionClosed(Err) for a peer that has a chat sets the
   chat's peer_tx to None and appends exactly one Info line to its messages,
   leaving the earlier messages, the other chats and the peer list as they
   were; and with peer_tx None an Enter key in that chat enqueues nothing. *)
C27_ClosedErrClosesChat ==
    [][/\ Handles("ConnectionClosed") =>
            LET e == Head(bus)
                f == FeedId(e.peer)
            IN  (e.status # "Ok" /\ HasChat(app, f)) =>
                    /\ DOMAIN app'.peer_chats = DOMAIN app.peer_chats
                    /\ app'.peer_chats[f].peer_tx = None
                    /\ Len(app'.peer_chats[f].messages) > 0
                    /\ app'.peer_chats[f].messages =
                            Append(app.peer_chats[f].messages,
                                   Last(app'.peer_chats[f].messages))
                    /\ Last(app'.peer_chats[f].messages).sender = ChatSender_Info
                    /\ \A g \in DOMAIN app.peer_chats \ {f} :
                            app'.peer_chats[g] = app.peer_chats[g]
                    /\ app'.available_peers = app.available_peers
       /\ (Handles("Input") /\ Head(bus).key = "Enter" /\ app.mode.kind = "Chat") =>
            LET f == app.mode.feed
            IN  (HasChat(app, f) /\ app.peer_chats[f].peer_tx = None) =>
                    UNCHANGED <<queue, enq>>]_vars

\* a connection of a peer with a chat was closed with an error, and the user
\* then pressed Enter in that chat: the chat ends with the line for the
\* closure and the line for the refused message, and nothing was enqueued
C27_ClosedThenEnter ==
    \E f \in DOMAIN app.peer_chats :
        LET ms == app.peer_chats[f].messages
        IN  /\ app.mode = Chat(f) /\ app.peer_chats[f].peer_tx = None
            /\ Len(ms) >= 4
            /\ ms[Len(ms) - 1].message.fmt = "Connection Closed -- Error ({})"
            /\ ms[Len(ms)].message.fmt = "Cannot send message, broken connetion?"
            /\ \A c \in Conn : enq[c] = <<>>

(* C28: the nonce generators of the writer and of the reader of one
   direction stay in lockstep: after k data frames have been sent and
   received without error, both hold seed + 2k. *)
C28_Lockstep ==
    LET k == Len(inlog[1])
        seed == hs_keys[1].write_noncegen
    IN  (/\ via[1] = "codec" /\ ~eof[1] /\ ntamper = 0 /\ writer[1] = "run"
         /\ Len(enq[1]) = k /\ Len(got[1]) = k
         /\ \A i \in 1..k : inlog[1][i].some /\ got[1][i].res = "Some") =>
            /\ box_writer[1].noncegen = seed + 2 * k
            /\ box_reader[1].noncegen = seed + 2 * k

(* C29: after send_goodbye the writer is closed: the goodbye header is the
   last thing that writer puts on its transport, no data frame and no second
   goodbye follows it. *)
C29_GoodbyeCloses ==
    via[1] = "codec" =>
        \A i \in 1..Len(inlog[1]) : ~inlog[1][i].some => i = Len(inlog[1])

\* the reader task and the writer task of c have both returned
Ended(c) == task[c] # "read" /\ writer[c] # "run"

(* C30: a live connection whose outbound queue is closed locally eventually
   reaches Closed: its reader task and its writer task have both terminated. *)
C30_Lifecycle == \A c \in Conn : [](tx[c] = "dropped" => <>Ended(c))

\* the last event handled for every connection of peer pk is its
\* ConnectionClosed or its HandshakeFailed, and there is such a connection
ClosedFor(pk) ==
    /\ \E c \in Conn : Len(consumed[c]) > 0 /\ Last(consumed[c]).peer = pk
    /\ \A c \in Conn : (Len(consumed[c]) > 0 /\ Last(consumed[c]).peer = pk) =>
            Last(consumed[c]).event \in {"ConnectionClosed", "HandshakeFailed"}

\* this step dials pk (or ends in the panic of a refused connect)
Dials(pk) ==
    \/ \E c \in Conn : via[c] = "none" /\ via'[c] = "pm" /\ peer'[c] = pk
    \/ ui' = "panicked"

(* C31: an Enter key handled in Chat mode for peer P, after ConnectionClosed
   or HandshakeFailed was handled for P, initiates a new handshake to P. *)
C31_EnterRedials ==
    [][(/\ Handles("Input") /\ Head(bus).key = "Enter" /\ app.mode.kind = "Chat"
        /\ ClosedFor(app.mode.feed[2])) => Dials(app.mode.feed[2])]_vars

\* the events connection c has published so far begin a sequence of the form
\* (NewConnection, if inbound), HandshakeSuccessful, MessageReceived*,
\* (ConnectionClosed)
SeqForm(c) ==
    LET es == emitted[c]
        k == IF inbound[c] THEN 1 ELSE 0
    IN  \A i \in 1..Len(es) :
            /\ IF i <= k THEN es[i].event = "NewConnection"
               ELSE IF i = k + 1 THEN es[i].event = "HandshakeSuccessful"
               ELSE es[i].event \in {"MessageReceived", "ConnectionClosed"}
            /\ es[i].event = "ConnectionClosed" => i = Len(es)

(* C32: the events each connection publishes form the sequence NewConnection
   (inbound connections only), one HandshakeSuccessful, any number of
   MessageReceived, at most one ConnectionClosed: no MessageReceived comes
   before the HandshakeSuccessful and nothing comes after the
   ConnectionClosed. *)
C32_EventSequence == \A c \in Conn : SeqForm(c)

(* C33: when a MessageReceived event is handled, the chat of its peer
   exists and the message is appended to it: no received message is
   dropped. *)
C33_MessageHasChat ==
    [][Handles("MessageReceived") =>
        LET f == FeedId(Head(bus).peer)
        IN  /\ HasChat(app, f)
            /\ Len(app'.peer_chats[f].messages) = Len(app.peer_chats[f].messages) + 1]_vars

\* the application has handled the HandshakeSuccessful of connection c and
\* not its ConnectionClosed
LiveHandled(c) ==
    /\ \E i \in 1..Len(consumed[c]) : consumed[c][i].event = "HandshakeSuccessful"
    /\ \A i \in 1..Len(consumed[c]) : consumed[c][i].event # "ConnectionClosed"

(* C34: while a connection to peer P is live (its HandshakeSuccessful was
   handled, its ConnectionClosed was not), the chat of P holds a Sender, and
   it is the Sender of a live connection to P. *)
C34_SenderWhileLive ==
    \A c \in Conn :
        LiveHandled(c) =>
            LET f == FeedId(peer[c])
            IN  /\ HasChat(app, f)
                /\ app.peer_chats[f].peer_tx # None
                /\ LiveHandled(app.peer_chats[f].peer_tx)
                /\ peer[app.peer_chats[f].peer_tx] = peer[c]

IsInput(e) == e.event = "Input"

(* C35: a selection Some(i) has i below the number of available peers, in
   every state the application reaches by key and NewPeer events: indexing
   the peer list with it is in bounds, and no key finds a selection with an
   empty peer list (where the wrap-around of j, k, Up, Down would compute
   len - 1 below zero). *)
C35_SelectedInBounds ==
    /\ app.selected # NoSel =>
            /\ 0 <= app.selected /\ app.selected < Len(app.available_peers)
            /\ Len(app.available_peers) > 0
    /\ SelectedFeed(app).r # "panic"
    /\ \A key \in {"j", "k", "Down", "Up", "a", "Backspace"} :
            handle_input(app, key).eff # "panic"

\* with two peers, j selected the first and k wrapped around to the last
C35_Wrapped ==
    LET ins == SelectSeq(consumed[0], IsInput)
    IN  /\ Len(ins) = 2 /\ ins[1].key = "j" /\ ins[2].key = "k"
        /\ Len(app.available_peers) = 2 /\ app.selected = 1

(* C36: while the application is in Chat(f) mode the selected index
   addresses peer f in the peer list, so the chat that character and
   Backspace keys edit is the chat of f, the one Enter sends to. *)
C36_SelectionIsChat ==
    app.mode.kind = "Chat" =>
        /\ SelectedFeed(app).r = "Some"
        /\ SelectedFeed(app).feed = app.mode.feed

(* C37: an Enter key handled in Chat(f) mode appends the input to the
   messages of chat f as a You message and clears the input exactly when the
   input was put on the outbound queue of the connection the chat holds;
   with peer_tx None nothing is enqueued, one Info line is appended and the
   input is left as it was. *)
C37_EnterFrame ==
    [][(Handles("Input") /\ Head(bus).key = "Enter" /\ app.mode.kind = "Chat") =>
        LET f == app.mode.feed
            has == HasChat(app, f)
            Sent == /\ has /\ HasChat(app', f)
                    /\ app'.peer_chats[f].messages =
                            Append(app.peer_chats[f].messages,
                                   ChatMsg(ChatSender_You, Typed(app.peer_chats[f].input)))
                    /\ app'.peer_chats[f].input = <<>>
            Enqueued == /\ has /\ app.peer_chats[f].peer_tx # None
                        /\ LET c == app.peer_chats[f].peer_tx
                           IN  /\ enq' = [enq EXCEPT ![c] = Append(@, app.peer_chats[f].input)]
                               /\ queue' = [queue EXCEPT ![c] =
                                                Append(@, app.peer_chats[f].input)]
        IN  /\ Sent <=> Enqueued
            /\ ~Enqueued => UNCHANGED <<enq, queue>>
            /\ (has /\ app.peer_chats[f].peer_tx = None) =>
                    /\ app'.peer_chats[f].messages =
                            Append(app.peer_chats[f].messages,
                                   ChatMsg(ChatSender_Info,
                                           Text("Cannot send message, broken connetion?",
                                                <<>>)))
                    /\ app'.peer_chats[f].input = app.peer_chats[f].input]_vars

\* the user typed a character and pressed Enter in a connected chat: the
\* text is on the outbound queue's record, it is the chat's last message, from
\* You, and the input is empty again
C37_TypedAndSent ==
    \E f \in DOMAIN app.peer_chats :
        LET chat == app.peer_chats[f]
        IN  /\ app.mode = Chat(f) /\ chat.peer_tx # None
            /\ enq[chat.peer_tx] = <<<<97>>>>
            /\ Last(chat.messages) = ChatMsg(ChatSender_You, Typed(<<97>>))
            /\ chat.input = <<>>

\* the k-th recv call meets the k-th frame written: nothing was flipped and
\* every earlier call returned a frame or a goodbye
Aligned(k) ==
    /\ ntamper = 0 /\ k <= Len(inlog[1])
    /\ \A i \in 1..(k - 1) : got[1][i].res \in {"Some", "None"}

(* C38: recv returns None only for a header whose 18-byte plaintext is all
   zeros, which only send_goodbye writes: a frame written by send is never
   decoded as goodbye, whatever its length, and an empty body written by
   send comes back as Some(empty), with two nonces drawn by the writer and
   two by the reader. *)
C38_GoodbyeOnlyZeros ==
    [][(via[1] = "codec" /\ Len(got'[1]) = Len(got[1]) + 1) =>
        LET k == Len(got[1]) + 1
            r == got'[1][k]
        IN  /\ r.res = "None" =>
                    /\ Len(win[1]) > 0 /\ win[1][1].t = "head"
                    /\ win[1][1].tag.pt = ZeroPayload
            /\ (Aligned(k) /\ inlog[1][k].some) => r.res # "None"
            /\ (/\ Aligned(k) /\ inlog[1][k].some /\ inlog[1][k].body = <<>>
                /\ win[1][1].tag.n = box_reader[1].noncegen) =>
                    /\ r.res = "Some" /\ r.body = <<>>
                    /\ Len(drawn'[1].r) = Len(drawn[1].r) + 2
                    /\ box_reader'[1].noncegen = box_reader[1].noncegen + 2
                    /\ win[1][1].tag.pt.btag.n = win[1][1].tag.n + 1
                    /\ \E j \in 1..(Len(drawn[1].w) - 1) :
                            /\ drawn[1].w[j].n = win[1][1].tag.n
                            /\ drawn[1].w[j + 1].n = win[1][1].tag.n + 1
                    /\ drawn'[1].r[Len(drawn'[1].r)].n = win[1][1].tag.n + 1]_vars

\* an empty body was sent and received as Some(empty), two nonces each side
C38_EmptyBodyReceived ==
    /\ via[1] = "codec"
    /\ inlog[1] = <<[some |-> TRUE, body |-> <<>>]>>
    /\ got[1] = <<[res |-> "Some", body |-> <<>>]>>
    /\ Len(drawn[1].w) = 2 /\ Len(drawn[1].r) = 2

(* C39: DiscoveryService::recv hands out a peer only when its key differs
   from the local key, and the nesting of recv invocations does not grow
   with the number of consecutive self-echo datagrams: at no time is more
   than one invocation nested in the caller's. *)
C39_DepthBounded ==
    /\ \A i \in 1..Len(emitted[0]) :
            emitted[0][i].event = "NewPeer" => emitted[0][i].peer # LocalPk
    /\ producer.depth <= 1

====
